---- MODULE Spec2Model ----
(***************************************************************************)
(* Batch analysis pipeline of CSV-PRO: the batch scheduler                 *)
(* (analyzeImagesInBatch), the single-file pipeline                        *)
(* (analyzeImageWithGemini) with its request/retry loop, the response      *)
(* post-processing, and the page handlers that start processing; with     *)
(* them the prompt, the thumbnail extraction, the title sanitization and   *)
(* the dimensions of the downscaler, each under a specification of its own.*)
(*                                                                         *)
(* Conventions.  An optional JavaScript field is a set with at most one    *)
(* element ({} is undefined).  A filename is a pair <<stem, ext>>.  A text *)
(* (title, description, keyword phrase) is a sequence of word tokens.      *)
(* File sizes are whole megabytes.                                         *)
(***************************************************************************)
EXTENDS Integers, Sequences, FiniteSets, TLC

VARIABLES
    imageFiles,     \* analyzeImagesInBatch: the input list
    endpoint,       \* environment: how the model endpoint behaves in this run
    faultsLeft,     \* environment: failures it may still inject (healthy endpoint)
    options,        \* AnalysisOptions of the run
    pc,             \* analyzeImagesInBatch: position of the scheduler
    MAX_BATCH_SIZE, \* analyzeImagesInBatch: batch size chosen from the input
    batchIndex,     \* analyzeImagesInBatch: index of the batch being processed
    i,              \* analyzeImagesInBatch: index of the file inside the batch
    allResults,     \* analyzeImagesInBatch: the results pushed so far
    reducedFile,    \* analyzeImagesInBatch: the file handed to the pipeline
    outerRetry,     \* analyzeImagesInBatch: retryCount of the per-file retry loop
    calls,          \* ghost: pipeline invocations per input position
    ppc,            \* analyzeImageWithGemini: position of the pipeline
    fileToProcess,  \* analyzeImageWithGemini: the normalized payload file
    originalIs,     \* analyzeImageWithGemini: originalIsSvg/Eps/Video as a tag
    retryCount,     \* analyzeImageWithGemini: retryCount of the request loop
    delay,          \* analyzeImageWithGemini: the backoff delay being waited for
    requestLog,     \* ghost: requests of the current pipeline invocation
    outcome,        \* analyzeImageWithGemini: what the call hands to its caller
    waited,         \* ghost: scheduler delays elapsed since the last pipeline call
    postIn,         \* post-processing on its own: the response, options and file
    postOut,        \* post-processing on its own: what the pipeline returns for it
    thumb,          \* videoProcessor on its own: the video element and the promises
    images,         \* Index: the status of every uploaded image, by position
    batches,        \* Index: the batches state (lists of image positions)
    isProcessing,   \* Index: isProcessing (isBatchProcessing is set along with it)
    runs,           \* Index: the processBatch calls under way, each with its closure
    settings,       \* Index: the settings state (platforms, mode, bounds, flags)
    clicksLeft      \* environment: clicks the user may still make

schedVars == <<imageFiles, endpoint, faultsLeft, options, pc, MAX_BATCH_SIZE,
               batchIndex, i, allResults, reducedFile, outerRetry, calls, waited>>
pipeVars  == <<ppc, fileToProcess, originalIs, retryCount, delay, requestLog, outcome>>
postVars  == <<postIn, postOut, thumb>>
uiVars    == <<images, batches, isProcessing, runs, settings, clicksLeft>>
schedVarsButFaults == <<imageFiles, endpoint, options, pc, MAX_BATCH_SIZE, batchIndex, i,
                          allResults, reducedFile, outerRetry, calls, waited>>
vars == <<schedVars, pipeVars, postVars, uiVars>>

(***************************************************************************)
(* Bounds of the model.                                                    *)
(***************************************************************************)
MaxRepeat == 3         \* an input list is a base list repeated 1..MaxRepeat times
MaxFaults == 1         \* failures a healthy endpoint run injects at most
MaxModelKeywords == 4  \* keywords in a model response, at most
MaxUiBatches == 3      \* batches of the images uploaded to the page, at most
MaxClicks == 2         \* clicks on the process and re-generate buttons, at most
ManyFiles == 51        \* files of the long input list (more than 50)
MaxTitleLen == 4       \* characters of a title given to the sanitization, at most

\* Generic helpers.
Range(s) == {s[k] : k \in 1..Len(s)}
Min(a, b) == IF a <= b THEN a ELSE b
Max(a, b) == IF a >= b THEN a ELSE b
RECURSIVE Pow2(_)
Pow2(n) == IF n = 0 THEN 1 ELSE 2 * Pow2(n - 1)

(***************************************************************************)
(* Files and their classification.                                         *)
(***************************************************************************)
\* The (extension, MIME type) pairs a browser produces for the accepted uploads.
FileKinds ==
    { [ext |-> "jpg", type |-> "image/jpeg"],
      [ext |-> "svg", type |-> "image/svg+xml"],
      [ext |-> "eps", type |-> "application/postscript"],
      [ext |-> "mp4", type |-> "video/mp4"] }

\* Sizes in MB: below and above the 2 MB mark, and large enough to pass 50 MB in total.
FileSizes == {1, 3, 30}

\* A file: its name (stem and extension), MIME type and size, and what its
\* bytes are ("original" for an uploaded file).
MkFile(stem, kind, size) ==
    [stem |-> stem, ext |-> kind.ext, type |-> kind.type, size |-> size,
     content |-> "original"]

FileName(f) == <<f.stem, f.ext>>

isSvgFile(f) == f.type = "image/svg+xml" \/ f.ext = "svg"

isEpsFile(f) ==
    \/ f.type \in {"application/postscript", "application/eps",
                   "application/x-eps", "image/eps"}
    \/ f.ext = "eps"

isVideoFile(f) ==
    \/ f.type \in {"video/mp4", "video/quicktime", "video/webm", "video/ogg",
                   "video/x-msvideo", "video/x-ms-wmv"}
    \/ f.ext \in {"mp4", "webm", "ogg", "mov", "avi", "wmv", "flv", "mkv"}

TypeIsImage(f) ==
    f.type \in {"image/jpeg", "image/png", "image/svg+xml", "image/eps"}

\* reduceImageSize: what the promise settles to, by what the browser does with the
\* file.  "decoded": the image loads and both canvases work; "unreadable": the
\* reader or the image element reports an error; "nocanvas": the image loads but
\* the 2d context or the encoded blob of the first pass is unavailable.
ReduceBehaviours == {"decoded", "unreadable", "nocanvas"}

reduceImageSize(f, how) ==
    IF ~TypeIsImage(f) \/ f.type = "image/svg+xml"
    THEN [settled |-> "resolve", file |-> f]
    ELSE CASE how = "decoded" ->
                [settled |-> "resolve",
                 file |-> [f EXCEPT !.type = "image/jpeg", !.size = Min(f.size, 1),
                                    !.content = "reduced"]]
           [] how = "unreadable" ->
                [settled |-> "resolve", file |-> f]
           [] OTHER ->
                [settled |-> "reject", error |-> "Could not get canvas context"]

(***************************************************************************)
(* Texts.  A token is a word with the punctuation that follows it; a text  *)
(* is a sequence of tokens; a keyword is a text (a phrase).                *)
(***************************************************************************)
Tok(w) == [w |-> w, p |-> ""]
TokP(w, p) == [w |-> w, p |-> p]

\* Sequence helpers with the meaning of the JavaScript array methods used.
FilterSeq(s, Keep(_)) ==
    LET F[k \in 0..Len(s)] ==
            IF k = 0 THEN <<>>
            ELSE IF Keep(s[k]) THEN Append(F[k - 1], s[k]) ELSE F[k - 1]
    IN F[Len(s)]

RECURSIVE Flatten(_)
Flatten(ss) == IF ss = <<>> THEN <<>> ELSE Head(ss) \o Flatten(Tail(ss))

\* [...new Set(s)]: the first occurrence of each element, in order.
RECURSIVE Unique(_)
Unique(s) ==
    IF s = <<>> THEN <<>>
    ELSE LET init == Unique(SubSeq(s, 1, Len(s) - 1))
             last == s[Len(s)]
         IN IF last \in Range(init) THEN init ELSE Append(init, last)

\* s.slice(0, n)
Slice(s, n) == SubSeq(s, 1, Min(Len(s), n))

\* Words of two characters or fewer (cleaned.length > 2 fails for them).
ShortWords == {"at", "on"}

\* keywordGenerator.ts: commonWords
commonWords ==
    {"the", "and", "for", "with", "this", "that", "are", "from",
     "has", "have", "had", "was", "were", "will", "been", "being",
     "can", "could", "may", "might", "must", "should", "would",
     "its", "his", "her", "they", "them", "their", "our", "your",
     "not", "but", "than", "then", "when", "how"}

\* sub is a substring of the word w (String.prototype.includes on one word).
SubstringPairs ==
    { <<"backgrounds", "background">>, <<"cartoons", "cartoon">>,
      <<"silhouettes", "silhouette">>, <<"isolated", "late">> }
WordIncludes(w, sub) == w = sub \/ <<w, sub>> \in SubstringPairs

\* text.includes(phrase): the phrase's words on consecutive tokens separated by
\* single spaces; the first and the last token may extend the phrase's word.
PhraseIn(text, ph) ==
    \E k \in 1..(Len(text) - Len(ph) + 1) :
        \A j \in 1..Len(ph) :
            /\ IF j = 1 \/ j = Len(ph)
               THEN WordIncludes(text[k + j - 1].w, ph[j])
               ELSE text[k + j - 1].w = ph[j]
            /\ j < Len(ph) => text[k + j - 1].p = ""

Words(ws) == [k \in 1..Len(ws) |-> Tok(ws[k])]

\* keywords.join(', ') followed by a split on whitespace: the tokens of all
\* phrases, the last token of every phrase but the last one followed by a comma.
JoinKeywords(keywords) ==
    Flatten([k \in 1..Len(keywords) |->
        IF k < Len(keywords) /\ keywords[k] # <<>>
        THEN [j \in 1..Len(keywords[k]) |->
                 IF j = Len(keywords[k]) /\ keywords[k][j].p = ""
                 THEN TokP(keywords[k][j].w, ",") ELSE keywords[k][j]]
        ELSE keywords[k]])

\* getRelevantFreepikKeywords: the content's tokens that are longer than two
\* characters and no common word, deduplicated as written (punctuation kept),
\* at most 50 of them, each a one-token keyword.
KeywordKeep(t) == t.w \notin ShortWords /\ t.w \notin commonWords
getRelevantFreepikKeywords(content) ==
    LET uniqueWords == Unique(FilterSeq(content, KeywordKeep))
    IN [k \in 1..Min(Len(uniqueWords), 50) |-> <<uniqueWords[k]>>]
(***************************************************************************)
(* categorySelector: determineVideoCategory.                               *)
(***************************************************************************)
categoryKeywords ==
    [c \in 1..21 |->
      CASE c = 1 -> {"animal", "wildlife", "pet", "zoo", "dog", "cat", "bird", "fish", "fauna", "tiger", "lion", "elephant"}
        [] c = 2 -> {"building", "architecture", "structure", "house", "apartment", "skyscraper", "office", "construction", "tower", "bridge", "monument"}
        [] c = 3 -> {"business", "office", "corporate", "meeting", "professional", "commerce", "management", "executive", "finance", "marketing", "startup"}
        [] c = 4 -> {"drink", "beverage", "coffee", "tea", "juice", "water", "cocktail", "wine", "beer", "alcohol", "smoothie", "soda"}
        [] c = 5 -> {"environment", "nature", "ecosystem", "conservation", "planet", "earth", "green", "sustainable", "climate", "pollution"}
        [] c = 6 -> {"mind", "emotion", "feeling", "mental", "psychology", "mood", "thought", "dream", "meditation", "consciousness", "awareness"}
        [] c = 7 -> {"food", "meal", "dish", "cuisine", "cooking", "restaurant", "recipe", "ingredient", "culinary", "gourmet", "breakfast", "dinner"}
        [] c = 8 -> {"graphic", "design", "illustration", "vector", "template", "pattern", "texture", "abstract", "digital art", "wallpaper", "background"}
        [] c = 9 -> {"hobby", "leisure", "entertainment", "recreation", "pastime", "game", "fun", "activity", "craft", "collecting", "diy"}
        [] c = 10 -> {"industry", "factory", "manufacturing", "production", "industrial", "machinery", "assembly", "automation", "process", "engineering"}
        [] c = 11 -> {"landscape", "scenery", "vista", "panorama", "horizon", "outdoor", "mountain", "valley", "field", "sky", "ocean", "sea"}
        [] c = 12 -> {"lifestyle", "living", "daily", "routine", "wellness", "health", "habit", "fashion", "home", "family", "community"}
        [] c = 13 -> {"people", "person", "human", "individual", "crowd", "group", "portrait", "face", "woman", "man", "child", "family"}
        [] c = 14 -> {"plant", "flower", "tree", "garden", "botanical", "floral", "leaf", "bloom", "vegetation", "forest", "jungle", "grass"}
        [] c = 15 -> {"culture", "religion", "tradition", "belief", "ritual", "ceremony", "heritage", "worship", "spiritual", "faith", "festival"}
        [] c = 16 -> {"science", "research", "laboratory", "experiment", "academic", "study", "discovery", "scientific", "chemistry", "physics", "biology"}
        [] c = 17 -> {"social", "issue", "problem", "cause", "awareness", "inequality", "justice", "activism", "rights", "protest", "movement"}
        [] c = 18 -> {"sport", "athlete", "game", "competition", "team", "fitness", "exercise", "training", "match", "tournament", "olympics", "champion"}
        [] c = 19 -> {"technology", "digital", "electronic", "computer", "device", "gadget", "innovation", "tech", "software", "hardware", "internet", "ai"}
        [] c = 20 -> {"transport", "vehicle", "car", "train", "plane", "bus", "bicycle", "boat", "travel", "traffic", "highway", "airport"}
        [] OTHER -> {"travel", "tourism", "vacation", "destination", "trip", "journey", "explore", "tourist", "hotel", "resort", "landmark", "sightseeing"}]

\* Matches of /\bkw\b/gi in a text: the tokens whose word is kw ("digital art":
\* the two words on consecutive tokens).
MatchCount(text, kw) ==
    IF kw = "digital art"
    THEN Cardinality({k \in 1..(Len(text) - 1) :
             text[k].w = "digital" /\ text[k].p = "" /\ text[k + 1].w = "art"})
    ELSE Cardinality({k \in 1..Len(text) : text[k].w = kw})

\* The score one category's keywords collect: the matches in all the content,
\* plus 3 for every keyword that also matches in the title.
RECURSIVE KeywordScore(_, _, _)
KeywordScore(kws, allContent, title) ==
    IF kws = {} THEN 0
    ELSE LET kw == CHOOSE x \in kws : TRUE
             matches == MatchCount(allContent, kw)
         IN (IF matches > 0
             THEN matches + (IF MatchCount(title, kw) > 0 THEN 3 ELSE 0)
             ELSE 0)
            + KeywordScore(kws \ {kw}, allContent, title)

GraphicTerms == {"background", "texture", "pattern", "wallpaper", "abstract"}

categoryScores(title, description, keywords) ==
    LET allContent == title \o description \o Flatten(keywords)
        bonus == IF \E t \in GraphicTerms : PhraseIn(allContent, <<t>>) THEN 5 ELSE 0
    IN [c \in 1..21 |->
           KeywordScore({kw \in categoryKeywords[c] : MatchCount(allContent, kw) > 0},
                        allContent, title)
           + (IF c = 8 THEN bonus ELSE 0)]

\* The scan for the highest score: ids in ascending order, a later id wins only
\* with a strictly higher score; 8 when no score is positive.
BestCategory(scores) ==
    LET highest == CHOOSE h \in {scores[c] : c \in 1..21} :
                       \A c \in 1..21 : scores[c] <= h
    IN IF highest = 0 THEN 8
       ELSE CHOOSE c \in 1..21 :
                scores[c] = highest /\ \A d \in 1..(c - 1) : scores[d] < highest

determineVideoCategory(title, description, keywords) ==
    IF title = <<>> /\ Len(keywords) = 0 THEN 8
    ELSE BestCategory(categoryScores(title, description, keywords))

(***************************************************************************)
(* imageHelpers: suggestCategoriesForShutterstock / ...ForAdobeStock.      *)
(***************************************************************************)
ContentHas(content, terms) == \E t \in terms : PhraseIn(content, <<t>>)

SuggestFrom(content, names) ==
    LET picks == <<{"people", "person", "portrait"}, {"nature", "landscape", "outdoor"},
                   {"business", "office", "professional"}, {"food", "drink", "meal"},
                   {"abstract", "pattern", "texture"}>>
        found == FilterSeq([k \in 1..5 |-> k], LAMBDA k : ContentHas(content, picks[k]))
    IN IF found = <<>> THEN <<names[6]>> ELSE [k \in 1..Len(found) |-> names[found[k]]]

suggestCategoriesForShutterstock(title, description) ==
    SuggestFrom(title \o description,
                <<"People", "Nature", "Business", "Food & Drink",
                  "Backgrounds/Textures", "Objects">>)

suggestCategoriesForAdobeStock(title, keywords) ==
    SuggestFrom(title \o Flatten(keywords),
                <<"People", "Nature", "Business", "Food", "Abstract", "Illustrations">>)
(***************************************************************************)
(* analyzeImageWithGemini: the options and the post-processing of the      *)
(* parsed response.  `r` is the parsed JSON object `result`: title,        *)
(* description and prompt are texts (<<>> when missing or empty), keywords *)
(* and category are optional.                                              *)
(***************************************************************************)
isFreepikOnly(o)  == Len(o.platforms) = 1 /\ o.platforms[1] = "Freepik"
isShutterstock(o) == Len(o.platforms) = 1 /\ o.platforms[1] = "Shutterstock"
isAdobeStock(o)   == Len(o.platforms) = 1 /\ o.platforms[1] = "AdobeStock"

HasKeywords(r) == r.keywords # {}
Keywords(r) == IF r.keywords = {} THEN <<>> ELSE CHOOSE k \in r.keywords : TRUE
SetKeywords(r, ks) == [r EXCEPT !.keywords = {ks}]

\* removeSymbolsFromTitle then capitalizeFirstWord: every symbol becomes a space.
SanitizeTitle(r) ==
    [r EXCEPT !.title = [k \in 1..Len(r.title) |-> Tok(r.title[k].w)]]

\* A content modifier: the title suffix, the keyword and what the keyword check
\* looks for, and the sentence added to the description.
ApplyModifier(r, titlePhrase, keywordPhrase, sentence) ==
    LET t == IF r.title # <<>> /\ ~PhraseIn(r.title, titlePhrase)
             THEN r.title \o Words(titlePhrase) ELSE r.title
        k == IF HasKeywords(r)
                /\ ~\E n \in 1..Len(Keywords(r)) : PhraseIn(Keywords(r)[n], keywordPhrase)
             THEN {Append(Keywords(r), Words(keywordPhrase))} ELSE r.keywords
        d == IF r.description # <<>> /\ ~PhraseIn(r.description, keywordPhrase)
             THEN r.description \o sentence ELSE r.description
    IN [r EXCEPT !.title = t, !.keywords = k, !.description = d]

SilhouetteSentence ==
    <<Tok("this"), Tok("image"), Tok("features"), Tok("a"), Tok("striking"),
      Tok("silhouette"), TokP("design", ","), Tok("perfect"), Tok("for"),
      Tok("creating"), Tok("a"), Tok("bold"), Tok("visual"), TokP("impact", ".")>>

ApplyModifiers(r, o) ==
    LET r1 == IF o.transparentBgEnabled
              THEN ApplyModifier(r, <<"isolated", "on", "white", "background">>,
                                 <<"white", "background">>, <<>>)
              ELSE r
        r2 == IF o.isolatedOnTransparentBgEnabled
              THEN ApplyModifier(r1, <<"isolated", "on", "transparent", "background">>,
                                 <<"transparent", "background">>, <<>>)
              ELSE r1
    IN IF o.silhouetteEnabled
       THEN ApplyModifier(r2, <<"silhouette">>, <<"silhouette">>, SilhouetteSentence)
       ELSE r2

\* The single-word stage without the split: deduplicated and capped only.
SingleWordKeywordsUnsplit(r, o) ==
    IF o.singleWordKeywordsEnabled /\ HasKeywords(r) /\ Len(Keywords(r)) > 0
    THEN SetKeywords(r, Slice(Unique(Keywords(r)), o.maxKeywords))
    ELSE r

\* Single-word keywords: every keyword split on whitespace, deduplicated, capped.
SingleWordKeywords(r, o) ==
    IF o.singleWordKeywordsEnabled /\ HasKeywords(r) /\ Len(Keywords(r)) > 0
    THEN LET tokens == Flatten(Keywords(r))
         IN SetKeywords(r, Slice(Unique([k \in 1..Len(tokens) |-> <<tokens[k]>>]),
                                 o.maxKeywords))
    ELSE r

\* "Ensure we have enough keywords": the backfill from title, description and
\* the keywords themselves.
BackfillKeywords(r, o) ==
    IF HasKeywords(r) /\ Len(Keywords(r)) < o.minKeywords
       /\ (o.customPromptEnabled
           \/ (~isFreepikOnly(o) /\ ~isShutterstock(o) /\ ~isAdobeStock(o)))
    THEN LET contentForKeywords == r.title \o r.description \o JoinKeywords(Keywords(r))
             additionalKeywords == getRelevantFreepikKeywords(contentForKeywords)
         IN SetKeywords(r, Slice(Unique(Keywords(r) \o additionalKeywords), o.maxKeywords))
    ELSE r

\* The prohibited-word filter; its backfill reads the title, or the description
\* when the title is empty (result.title || '' + ' ' + (result.description || '')).
NotProhibited(keyword, prohibited) ==
    ~\E k \in 1..Len(prohibited) : PhraseIn(keyword, <<prohibited[k]>>)

FilterProhibited(r, o) ==
    IF o.prohibitedWordsEnabled /\ Len(o.prohibitedWords) > 0
       /\ HasKeywords(r) /\ Len(Keywords(r)) > 0
    THEN LET kept == FilterSeq(Keywords(r), LAMBDA k : NotProhibited(k, o.prohibitedWords))
             additionalKeywords ==
                 getRelevantFreepikKeywords(IF r.title # <<>> THEN r.title ELSE r.description)
             filteredAdditionalKeywords ==
                 FilterSeq(additionalKeywords, LAMBDA k : NotProhibited(k, o.prohibitedWords))
         IN IF Len(kept) < o.minKeywords
            THEN SetKeywords(r, Slice(Unique(kept \o filteredAdditionalKeywords), o.maxKeywords))
            ELSE SetKeywords(r, kept)
    ELSE r

\* Platform enrichment: Freepik's keyword regeneration and base model, the
\* category lists of Shutterstock and AdobeStock.
PlatformEnrich(r, o) ==
    LET r1 == IF isFreepikOnly(o)
              THEN [(IF ~HasKeywords(r) \/ Len(Keywords(r)) < o.minKeywords
                     THEN SetKeywords(r, getRelevantFreepikKeywords(r.prompt))
                     ELSE r) EXCEPT !.baseModel = {"leonardo"}]
              ELSE r
        r2 == IF isShutterstock(o)
              THEN [r1 EXCEPT !.categories =
                        {suggestCategoriesForShutterstock(r1.title, r1.description)}]
              ELSE r1
    IN IF isAdobeStock(o)
       THEN [r2 EXCEPT !.categories =
                 {suggestCategoriesForAdobeStock(r2.title, Keywords(r2))}]
       ELSE r2

\* All the stages between JSON.parse and the return statements, in order.
PostProcess(r, o) ==
    PlatformEnrich(FilterProhibited(BackfillKeywords(SingleWordKeywords(
        ApplyModifiers(SanitizeTitle(r), o), o), o), o), o)

\* VideoCategory of a pipeline that takes any number the model gives.
VideoCategoryUnchecked(r) ==
    IF \E c \in r.category : c.num /\ c.val # 0
    THEN (CHOOSE c \in r.category : TRUE).val
    ELSE determineVideoCategory(r.title, r.description, Keywords(r))

\* The category of a video result: the model's own number when it is a number in
\* 1..21, the keyword scoring otherwise.
VideoCategory(r) ==
    IF \E c \in r.category : c.num /\ c.val # 0 /\ c.val >= 1 /\ c.val <= 21
    THEN (CHOOSE c \in r.category : TRUE).val
    ELSE determineVideoCategory(r.title, r.description, Keywords(r))
(***************************************************************************)
(* analyzeImageWithGemini: from the response text to the returned value.   *)
(***************************************************************************)
NoResult ==
    [title |-> <<>>, description |-> <<>>, keywords |-> <<>>, prompt |-> {},
     baseModel |-> {}, categories |-> {}, category |-> {}, error |-> {},
     filename |-> {}, isVideo |-> {}, isEps |-> {}, index |-> {}]

OptText(t) == IF t = <<>> THEN {} ELSE {t}

\* The return statements of the metadata mode, by the kind of the original file.
MetadataResult(r, o, imageFile, kind) ==
    LET common == [NoResult EXCEPT !.title = r.title, !.description = r.description,
                                   !.keywords = Keywords(r),
                                   !.filename = {FileName(imageFile)},
                                   !.isVideo = {kind = "video"}, !.isEps = {kind = "eps"}]
    IN IF kind = "video"
       THEN [common EXCEPT !.category = {VideoCategory(r)},
                           !.categories =
                               IF ~isFreepikOnly(o) /\ ~isShutterstock(o) /\ ~isAdobeStock(o)
                               THEN r.categories ELSE {}]
       ELSE [common EXCEPT !.prompt = OptText(r.prompt),
                           !.baseModel = IF r.baseModel = {} THEN {"leonardo"} ELSE r.baseModel,
                           !.categories = r.categories]

\* What the code after the request loop does with the text of an ok response:
\* the value it returns, or the error it throws.
HandleResponseText(body, o, imageFile, kind) ==
    IF o.generationMode = "imageToPrompt"
    THEN [kind |-> "return",
          result |-> [NoResult EXCEPT !.description = body.text,
                                      !.filename = {FileName(imageFile)},
                                      !.isVideo = {kind = "video"}, !.isEps = {kind = "eps"}]]
    ELSE IF ~body.parses
    THEN [kind |-> "throw", error |-> "Failed to parse metadata from the API response"]
    ELSE [kind |-> "return",
          result |-> MetadataResult(PostProcess(body.r, o), o, imageFile, kind)]

\* ErrorResult of a catch block that also reports the error as the description.
ErrorResultWithDescription(error, imageFile) ==
    [NoResult EXCEPT !.error = {error}, !.description = <<Tok("error")>>,
                     !.isVideo = {isVideoFile(imageFile)},
                     !.isEps = {isEpsFile(imageFile)}, !.filename = {FileName(imageFile)}]

\* The catch block around the whole pipeline: every error becomes a result.
ErrorResult(error, imageFile) ==
    [NoResult EXCEPT !.error = {error}, !.isVideo = {isVideoFile(imageFile)},
                     !.isEps = {isEpsFile(imageFile)}, !.filename = {FileName(imageFile)}]

PipelineCatch(thrown, imageFile) ==
    IF thrown.kind = "throw"
    THEN [kind |-> "return", result |-> ErrorResult(thrown.error, imageFile)]
    ELSE thrown
(***************************************************************************)
(* The model endpoint and the other things the environment decides.        *)
(***************************************************************************)
NoBody == [parses |-> FALSE, candidates |-> FALSE, text |-> <<>>,
           r |-> [title |-> <<>>, description |-> <<>>, keywords |-> {}, prompt |-> <<>>,
                  category |-> {}, baseModel |-> {}, categories |-> {}]]

\* A response whose text holds the JSON object r.
JsonBody(r) == [parses |-> TRUE, candidates |-> TRUE, text |-> <<Tok("json")>>, r |-> r]

\* A response whose text holds no JSON object.
ProseBody == [NoBody EXCEPT !.candidates = TRUE, !.text = <<Tok("sorry")>>]

\* The response bodies of the scheduler runs.
RunBodies ==
    { JsonBody([NoBody.r EXCEPT !.title = <<TokP("sky", ","), Tok("cat")>>,
                                !.description = <<Tok("the"), Tok("cat")>>,
                                !.keywords = {<<<<Tok("cat")>>, <<Tok("sky")>>>>}]),
      ProseBody,
      NoBody }

Response(status, message, body) == [status |-> status, message |-> message, body |-> body]

\* status 0: fetch itself threw (a transport error) with the message.
OkResponses == {Response(200, "", b) : b \in RunBodies}
RateLimitResponses ==
    { Response(429, "Resource has been exhausted (e.g. check quota).", NoBody),
      Response(503, "The model is overloaded. Please try again later.", NoBody),
      Response(0, "429 Too Many Requests", NoBody) }
FatalResponses ==
    { Response(400, "API key not valid. Please pass a valid API key.", NoBody),
      Response(0, "Failed to fetch", NoBody) }

\* A response that is no failure of the environment.
IsGoodResponse(resp) == resp.status = 200 /\ resp.body.parses

Responses(e) ==
    CASE e = "always429" -> {Response(429, "Resource has been exhausted (e.g. check quota).", NoBody)}
      [] e = "healthy"   -> OkResponses \cup FatalResponses
      [] OTHER           -> OkResponses \cup FatalResponses \cup RateLimitResponses

\* The environment may inject a failure: always when the endpoint is the
\* overloaded one, within the budget otherwise.
FaultAllowed == endpoint = "overloaded" \/ faultsLeft > 0
FaultsAfter(isFault) ==
    IF isFault /\ endpoint # "overloaded" THEN faultsLeft - 1 ELSE faultsLeft

(***************************************************************************)
(* analyzeImageWithGemini: normalization and the request/retry loop.       *)
(***************************************************************************)
MAX_RETRIES == 5

\* The tag of the branch the classification chain takes for the file.
Classify(imageFile) ==
    CASE isSvgFile(imageFile)   -> "svg"
      [] isEpsFile(imageFile)   -> "eps"
      [] isVideoFile(imageFile) -> "video"
      [] TypeIsImage(imageFile) -> "image"
      [] OTHER                  -> "other"

\* extractVideoThumbnail: what the promise settles to, by what the browser does
\* on the primary path (video element and canvas) and on the fallback path (the
\* placeholder drawn on a canvas).
PrimaryOutcomes == {"frame", "loaderror", "timeout", "nocanvas", "noblob"}
FallbackOutcomes == {"placeholder", "nocanvas", "noblob"}

extractVideoThumbnail(videoFile, primary, fallback) ==
    IF primary = "frame"
    THEN [settled |-> "resolve",
          file |-> [videoFile EXCEPT !.ext = "_thumbnail.png", !.type = "image/png", !.content = "frame"]]
    ELSE IF fallback = "placeholder"
    THEN [settled |-> "resolve",
          file |-> [videoFile EXCEPT !.ext = "_thumbnail.png", !.type = "image/png",
                                     !.content = "placeholder"]]
    ELSE [settled |-> "reject", error |-> "Failed to extract video thumbnail"]

\* The file the branch produces when its conversion succeeds.
Normalized(imageFile, how, primary, fallback) ==
    CASE Classify(imageFile) = "svg" ->
            [imageFile EXCEPT !.type = "image/png", !.content = "raster"]
      [] Classify(imageFile) = "video" ->
            LET extracted == extractVideoThumbnail(imageFile, primary, fallback)
            IN IF extracted.settled = "resolve" THEN extracted.file ELSE imageFile
      [] Classify(imageFile) = "eps"   ->
            [imageFile EXCEPT !.type = "text/plain", !.content = "report"]
      [] Classify(imageFile) = "image" ->
            LET red == reduceImageSize(imageFile, how)
            IN IF red.settled = "resolve" THEN red.file ELSE imageFile
      [] OTHER -> imageFile

ConversionError(imageFile) ==
    CASE Classify(imageFile) = "svg" -> "Failed to convert SVG to PNG format"
      [] Classify(imageFile) = "eps" -> "Failed to extract metadata from EPS file"
      [] OTHER -> "Failed to extract thumbnail from video"

\* RequestParts of a request that always carries inline data.
RequestPartsInline(tag, payload) == [part |-> "inline_data", mime_type |-> payload.type]

\* The parts of the request body after the prompt: the EPS report as text, any
\* other payload as inline data with its MIME type.
RequestParts(tag, payload) ==
    IF tag = "eps" THEN [part |-> "text", mime_type |-> "none"]
    ELSE [part |-> "inline_data", mime_type |-> payload.type]

\* IsRateLimitStatus of a loop that takes every HTTP error for rate limiting.
IsRateLimitStatusAnyError(status) == status >= 400

IsRateLimitStatus(status) == status = 429 \/ status = 503

\* error.message.includes('429') || error.message.includes('Too Many Requests')
IsRateLimitTransport(message) == message = "429 Too Many Requests"

\* Math.min(2000 * Math.pow(2, retryCount), 60000)
BackoffDelay(n) == Min(2000 * Pow2(n), 60000)

\* A retry counter that only the 429 and 503 responses advance.
CountAfterStatusOnly(resp, n) ==
    IF IsRateLimitStatus(resp.status) THEN n + 1 ELSE n

\* The retry counter once the response is in: both kinds of failure advance it.
CountAfter(resp, n) ==
    IF IsRateLimitStatus(resp.status) \/ resp.status = 0 THEN n + 1 ELSE n

\* Retries of a loop that stops one retry earlier.
RetriesOneLess(resp, n) ==
    /\ CountAfter(resp, n) < MAX_RETRIES
    /\ \/ IsRateLimitStatus(resp.status)
       \/ resp.status = 0 /\ IsRateLimitTransport(resp.message)

\* Whether the loop goes round again after the response.
Retries(resp, n) ==
    /\ CountAfter(resp, n) <= MAX_RETRIES
    /\ \/ IsRateLimitStatus(resp.status)
       \/ resp.status = 0 /\ IsRateLimitTransport(resp.message)

\* What the code after the loop makes of the last response.
AfterLoop(resp, o, imageFile, tag) ==
    CASE resp.status = 0 -> [kind |-> "throw", error |-> resp.message]
      [] resp.status # 200 -> [kind |-> "throw", error |-> resp.message]
      [] ~resp.body.candidates ->
            [kind |-> "throw", error |-> "Cannot read properties of undefined"]
      [] OTHER -> HandleResponseText(resp.body, o, imageFile, tag)
(***************************************************************************)
(* analyzeImagesInBatch: the batching decision and the per-file handling.  *)
(***************************************************************************)
RECURSIVE TotalSize(_)
TotalSize(files) == IF files = <<>> THEN 0 ELSE Head(files).size + TotalSize(Tail(files))

\* BatchSizeFor without the reduction for many large files.
BatchSizeForTotalOnly(files) ==
    LET totalSizeMB == TotalSize(files)
    IN IF totalSizeMB > 20 THEN 5 ELSE IF totalSizeMB > 10 THEN 8 ELSE 10

\* MAX_BATCH_SIZE as the first lines of the scheduler compute it.
BatchSizeFor(files) ==
    LET totalSizeMB == TotalSize(files)
        bySize == IF totalSizeMB > 20 THEN 5 ELSE IF totalSizeMB > 10 THEN 8 ELSE 10
        largeFiles == Cardinality({k \in 1..Len(files) : files[k].size > 2})
    IN IF largeFiles > 5 THEN Min(bySize, 3) ELSE bySize

\* The one-at-a-time path.
Individually(files) == TotalSize(files) > 50 \/ Len(files) > 50

NumBatches == (Len(imageFiles) + MAX_BATCH_SIZE - 1) \div MAX_BATCH_SIZE
BatchLength(b) == Min(MAX_BATCH_SIZE, Len(imageFiles) - b * MAX_BATCH_SIZE)

\* GlobalIndex that counts inside the batch on both paths.
GlobalIndexInBatch == i

\* globalIndex, and i itself on the one-at-a-time path.
GlobalIndex == IF Individually(imageFiles) THEN i ELSE batchIndex * MAX_BATCH_SIZE + i
CurrentFile == imageFiles[GlobalIndex + 1]

\* The result the per-file catch block pushes.
FileCatch(error, file, index) ==
    [NoResult EXCEPT !.error = {error}, !.isVideo = {isVideoFile(file)},
                     !.isEps = {isEpsFile(file)}, !.filename = {FileName(file)},
                     !.index = {index}]

\* FileResult with the position in the batch for the index.
FileResultLocalIndex(result, file, index) ==
    [result EXCEPT !.index = {i}, !.filename = {FileName(file)}]

\* The returned result with index and filename set by the scheduler.
FileResult(result, file, index) ==
    [result EXCEPT !.index = {index}, !.filename = {FileName(file)}]

\* The messages the per-file retry loop takes for rate limiting.
IsRateLimitMessage(message) ==
    message \in {"429 Too Many Requests",
                 "Resource has been exhausted (e.g. check quota)."}

\* NextPc of a scheduler that returns at the first per-file error.
NextPcAbortOnError(ok) ==
    IF ~ok THEN "done"
    ELSE IF Individually(imageFiles) THEN "delay"
    ELSE IF i < BatchLength(batchIndex) - 1 THEN "delay"
    ELSE IF batchIndex < NumBatches - 1 THEN "batchDelay" ELSE "done"

\* NextPc of a scheduler that does not wait between the files of a batch.
NextPcNoDelay(ok) ==
    IF Individually(imageFiles)
    THEN IF ok THEN "delay"
         ELSE IF i + 1 < Len(imageFiles) THEN "reduce" ELSE "done"
    ELSE IF i < BatchLength(batchIndex) - 1
         THEN "reduce"
         ELSE IF batchIndex < NumBatches - 1 THEN "batchDelay" ELSE "done"

\* The scheduler's position after the file at i: `ok` tells whether its result
\* came from the try block (which waits before the next file) or the catch block.
NextPc(ok) ==
    IF Individually(imageFiles)
    THEN IF ok THEN "delay"
         ELSE IF i + 1 < Len(imageFiles) THEN "reduce" ELSE "done"
    ELSE IF i < BatchLength(batchIndex) - 1
         THEN IF ok THEN "delay" ELSE "reduce"
         ELSE IF batchIndex < NumBatches - 1 THEN "batchDelay" ELSE "done"

\* i after the file at i, when the scheduler does not wait first.
NextI(ok) == IF NextPc(ok) = "reduce" THEN i + 1 ELSE i

(***************************************************************************)
(* The scheduler run: initial states.                                      *)
(***************************************************************************)
RECURSIVE Repeat(_, _)
Repeat(base, n) == IF n = 0 THEN <<>> ELSE base \o Repeat(base, n - 1)

\* One file of each kind, and pairs of files whose kinds differ or agree.
KindPairs ==
    {k \in FileKinds \X FileKinds :
        <<k[1].ext, k[2].ext>> \in {<<"jpg", "eps">>, <<"svg", "mp4">>,
                                    <<"mp4", "jpg">>, <<"jpg", "jpg">>}}

BaseLists(size) ==
    {<<MkFile(1, k, size)>> : k \in FileKinds}
    \cup {<<MkFile(1, k[1], size), MkFile(2, k[2], size)>> : k \in KindPairs}

\* Many small files (each under one MB), with distinct names.
LongList == [k \in 1..ManyFiles |-> MkFile(k, [ext |-> "jpg", type |-> "image/jpeg"], 0)]

InputLists ==
    UNION {{Repeat(b, n) : b \in BaseLists(size), n \in 1..MaxRepeat} : size \in FileSizes}
    \cup {LongList}

RunOptions ==
    [platforms |-> <<"Alamy">>, generationMode |-> "metadata",
     minKeywords |-> 2, maxKeywords |-> 3,
     customPromptEnabled |-> FALSE, prohibitedWordsEnabled |-> FALSE,
     prohibitedWords |-> <<>>, transparentBgEnabled |-> FALSE,
     isolatedOnTransparentBgEnabled |-> FALSE, silhouetteEnabled |-> FALSE,
     singleWordKeywordsEnabled |-> FALSE]

NoFile == [stem |-> 0, ext |-> "", type |-> "", size |-> 0, content |-> ""]

PipeIdle ==
    /\ ppc = "idle"
    /\ fileToProcess = NoFile
    /\ originalIs = "none"
    /\ retryCount = 0
    /\ delay = 0
    /\ requestLog = <<>>
    /\ outcome = [kind |-> "none"]

NoThumb == [step |-> "none"]

PostIdle == postIn = [kind |-> "none"] /\ postOut = {} /\ thumb = NoThumb

\* No page is open.
UIIdle ==
    /\ images = <<>>
    /\ batches = <<>>
    /\ isProcessing = FALSE
    /\ runs = <<>>
    /\ settings = RunOptions
    /\ clicksLeft = 0

Init ==
    /\ imageFiles \in InputLists
    /\ endpoint \in {"healthy", "always429"}
                    \cup (IF Len(imageFiles) = 1 THEN {"overloaded"} ELSE {})
    /\ faultsLeft = IF imageFiles = LongList THEN 0 ELSE MaxFaults
    /\ options = RunOptions
    /\ pc = "start"
    /\ MAX_BATCH_SIZE = 10
    /\ batchIndex = 0
    /\ i = 0
    /\ allResults = <<>>
    /\ reducedFile = NoFile
    /\ outerRetry = 0
    /\ calls = [k \in 1..Len(imageFiles) |-> 0]
    /\ waited = 0
    /\ PipeIdle
    /\ PostIdle
    /\ UIIdle
(***************************************************************************)
(* The scheduler run: actions.                                             *)
(***************************************************************************)
\* The first lines of analyzeImagesInBatch: the batch size and the path.
SchedStart ==
    /\ pc = "start"
    /\ MAX_BATCH_SIZE' = BatchSizeFor(imageFiles)
    /\ pc' = "reduce"
    /\ UNCHANGED <<imageFiles, endpoint, faultsLeft, options, batchIndex, i, allResults,
                   reducedFile, outerRetry, calls, waited, pipeVars, postVars, uiVars>>

\* `await reduceImageSize(file)` and, when it resolves, the call of the pipeline;
\* when it rejects, the per-file catch block.
SchedReduce ==
    /\ pc = "reduce"
    /\ \E how \in ReduceBehaviours :
        LET red == reduceImageSize(CurrentFile, how) IN
        /\ how # "decoded" => FaultAllowed /\ reduceImageSize(CurrentFile, "decoded").file # CurrentFile
        /\ faultsLeft' = FaultsAfter(how # "decoded")
        /\ IF red.settled = "reject"
           THEN /\ allResults' = Append(allResults, FileCatch(red.error, CurrentFile, GlobalIndex))
                /\ pc' = NextPc(FALSE)
                /\ i' = NextI(FALSE)
                /\ UNCHANGED <<reducedFile, outerRetry, calls, ppc, waited>>
           ELSE /\ reducedFile' = red.file
                /\ outerRetry' = 0
                /\ calls' = [calls EXCEPT ![GlobalIndex + 1] = @ + 1]
                /\ pc' = "calling"
                /\ ppc' = "normalize"
                /\ UNCHANGED <<allResults, i, waited>>
    /\ UNCHANGED <<imageFiles, endpoint, options, MAX_BATCH_SIZE, batchIndex,
                   fileToProcess, originalIs, retryCount, delay, requestLog, outcome,
                   postVars, uiVars>>

\* analyzeImageWithGemini up to the request loop: the classification chain with
\* its conversions, then fileToBase64.  A conversion or read failure goes to the
\* catch block of the pipeline.
PipeNormalize ==
    /\ ppc = "normalize"
    /\ \E conv \in {"ok", "fail", "noread"}, how \in ReduceBehaviours,
          primary \in PrimaryOutcomes, fallback \in FallbackOutcomes :
        /\ conv # "ok" => FaultAllowed
        /\ conv = "fail" => Classify(reducedFile) \in {"svg", "eps", "video"}
        /\ how # "decoded" =>
              /\ Classify(reducedFile) = "image" /\ conv = "ok" /\ FaultAllowed
        /\ IF Classify(reducedFile) = "video"
           THEN /\ primary # "frame" => FaultAllowed
                /\ primary = "frame" => fallback = "placeholder"
                /\ (conv = "fail") <=>
                      (extractVideoThumbnail(reducedFile, primary, fallback).settled = "reject")
           ELSE primary = "frame" /\ fallback = "placeholder"
        /\ faultsLeft' = FaultsAfter(conv # "ok" \/ how # "decoded" \/ primary # "frame")
        /\ originalIs' = Classify(reducedFile)
        /\ requestLog' = <<>>
        /\ retryCount' = 0
        /\ delay' = 0
        /\ IF conv = "ok"
           THEN /\ fileToProcess' = Normalized(reducedFile, how, primary, fallback)
                /\ ppc' = "fetch"
                /\ outcome' = [kind |-> "none"]
           ELSE /\ fileToProcess' = reducedFile
                /\ ppc' = "return"
                /\ outcome' = PipelineCatch(
                       [kind |-> "throw",
                        error |-> IF conv = "fail" THEN ConversionError(reducedFile)
                                  ELSE "Unknown error occurred"],
                       reducedFile)
    /\ UNCHANGED <<schedVarsButFaults, postVars, uiVars>>

\* The response field of a request that has not been answered yet.
Pending == [status |-> -1, message |-> "", parses |-> FALSE]

\* The fetch call: one request goes out.
PipeFetch ==
    /\ ppc = "fetch"
    /\ requestLog' = Append(requestLog,
           [file |-> reducedFile, tag |-> originalIs,
            parts |-> RequestParts(originalIs, fileToProcess),
            waited |-> delay, response |-> Pending])
    /\ ppc' = "inflight"
    /\ UNCHANGED <<schedVars, fileToProcess, originalIs, retryCount, delay, outcome, postVars, uiVars>>

\* The response arrives (or fetch throws): the rest of the loop body, and, when
\* the loop is left, the code after it down to the return or the catch block.
PipeResponse ==
    /\ ppc = "inflight"
    /\ \E resp \in Responses(endpoint) :
        /\ (endpoint = "healthy" /\ ~IsGoodResponse(resp)) => FaultAllowed
        /\ faultsLeft' = FaultsAfter(endpoint = "healthy" /\ ~IsGoodResponse(resp))
        /\ requestLog' = [requestLog EXCEPT ![Len(requestLog)].response =
                              [status |-> resp.status, message |-> resp.message,
                               parses |-> resp.body.parses]]
        /\ retryCount' = CountAfter(resp, retryCount)
        /\ IF Retries(resp, retryCount)
           THEN /\ delay' = BackoffDelay(retryCount')
                /\ ppc' = "backoff"
                /\ outcome' = outcome
           ELSE /\ delay' = delay
                /\ ppc' = "return"
                /\ outcome' = PipelineCatch(
                       AfterLoop(resp, options, reducedFile, originalIs), reducedFile)
    /\ UNCHANGED <<schedVarsButFaults, fileToProcess, originalIs, postVars, uiVars>>

\* The backoff wait elapses and the loop goes round.
PipeBackoff ==
    /\ ppc = "backoff"
    /\ ppc' = "fetch"
    /\ UNCHANGED <<schedVars, fileToProcess, originalIs, retryCount, delay, requestLog,
                   outcome, postVars, uiVars>>

\* The pipeline call settles in the scheduler: the per-file retry loop, the push
\* of the result, or the per-file catch block.
SchedReturn ==
    /\ pc = "calling"
    /\ ppc = "return"
    /\ IF outcome.kind = "throw" /\ IsRateLimitMessage(outcome.error)
          /\ outerRetry + 1 < MAX_RETRIES
       THEN \* catch inside the retry loop: back off and call again
            /\ outerRetry' = outerRetry + 1
            /\ waited' = waited + BackoffDelay(outerRetry + 1)
            /\ calls' = [calls EXCEPT ![GlobalIndex + 1] = @ + 1]
            /\ ppc' = "normalize"
            /\ UNCHANGED <<pc, i, allResults, fileToProcess, originalIs, retryCount,
                           delay, requestLog, outcome>>
       ELSE /\ allResults' = Append(allResults,
                  IF outcome.kind = "throw"
                  THEN FileCatch(outcome.error, CurrentFile, GlobalIndex)
                  ELSE FileResult(outcome.result, CurrentFile, GlobalIndex))
            /\ pc' = NextPc(outcome.kind = "return")
            /\ i' = NextI(outcome.kind = "return")
            /\ waited' = 0
            /\ ppc' = "idle"
            /\ fileToProcess' = NoFile
            /\ originalIs' = "none"
            /\ retryCount' = 0
            /\ delay' = 0
            /\ requestLog' = <<>>
            /\ outcome' = [kind |-> "none"]
            /\ UNCHANGED <<outerRetry, calls>>
    /\ UNCHANGED <<imageFiles, endpoint, faultsLeft, options, MAX_BATCH_SIZE, batchIndex,
                   reducedFile, postVars, uiVars>>

\* The wait between two files elapses.
SchedDelay ==
    /\ pc = "delay"
    /\ waited' = waited + (IF Individually(imageFiles) THEN 1000 + i * 50
                           ELSE 1000 + (GlobalIndex + 1) * 50)
    /\ i' = IF Individually(imageFiles) /\ i + 1 >= Len(imageFiles) THEN i ELSE i + 1
    /\ pc' = IF Individually(imageFiles) /\ i + 1 >= Len(imageFiles) THEN "done" ELSE "reduce"
    /\ UNCHANGED <<imageFiles, endpoint, faultsLeft, options, MAX_BATCH_SIZE, batchIndex,
                   allResults, reducedFile, outerRetry, calls, pipeVars, postVars, uiVars>>

\* The wait between two batches elapses.
SchedBatchDelay ==
    /\ pc = "batchDelay"
    /\ waited' = waited + 3000 + batchIndex * 1000
    /\ batchIndex' = batchIndex + 1
    /\ i' = 0
    /\ pc' = "reduce"
    /\ UNCHANGED <<imageFiles, endpoint, faultsLeft, options, MAX_BATCH_SIZE,
                   allResults, reducedFile, outerRetry, calls, pipeVars, postVars, uiVars>>

Next ==
    \/ SchedStart
    \/ SchedReduce
    \/ PipeNormalize
    \/ PipeFetch
    \/ PipeResponse
    \/ PipeBackoff
    \/ SchedReturn
    \/ SchedDelay
    \/ SchedBatchDelay

Spec == Init /\ [][Next]_vars
(***************************************************************************)
(* The post-processing applied to one response: analyzeImageWithGemini     *)
(* from the ok response to the value it returns, for bounded responses,    *)
(* options and files.                                                      *)
(***************************************************************************)
Bools == {TRUE, FALSE}

\* Keyword phrases the model may return, and the lists of them.
ModelPhrases == {<<Tok("cat")>>, <<Tok("blue"), Tok("sky")>>}
ModelKeywordLists ==
    UNION {[1..n -> ModelPhrases] : n \in 0..MaxModelKeywords}

ModelTitle == <<TokP("sky", ","), Tok("cat")>>
ModelDescription == <<Tok("the"), Tok("cat"), Tok("sleeps"), Tok("outdoor")>>
ModelPrompt == <<Tok("sleeping"), Tok("cat"), Tok("under"), Tok("blue"), Tok("sky")>>

\* The category field of the parsed JSON: missing, or a value that is a number or not.
ModelCategories ==
    {{}} \cup {{[num |-> TRUE, val |-> v]} : v \in {0, 5, 21, 22}}
         \cup {{[num |-> FALSE, val |-> 5]}}

\* Parsed JSON objects of image responses and of video (or EPS) responses.
ImageObjects ==
    {[NoBody.r EXCEPT !.title = t, !.description = ModelDescription,
                      !.keywords = ks, !.prompt = pr] :
        t \in {<<>>, ModelTitle},
        ks \in {{}} \cup {{l} : l \in ModelKeywordLists},
        pr \in {<<>>, ModelPrompt}}

\* Titles of abstract clips that also name animals.
GraphicTitles ==
    {<<Tok("abstract"), Tok("cat")>>, <<Tok("abstract"), Tok("cat"), Tok("dog")>>}

VideoObjects ==
    {[NoBody.r EXCEPT !.title = t, !.description = ModelDescription,
                      !.keywords = ks, !.category = c] :
        t \in {<<>>, ModelTitle} \cup GraphicTitles,
        ks \in {{}, {<<>>}, {<<<<Tok("cat")>>, <<Tok("sky")>>>>}},
        c \in ModelCategories}

PostPlatforms == {"Alamy", "Freepik", "Shutterstock", "AdobeStock"}

\* Options: every platform selection with every combination of the feature flags.
FlagOptions ==
    {[RunOptions EXCEPT !.platforms = <<pl>>,
                        !.customPromptEnabled = f[1],
                        !.prohibitedWordsEnabled = f[2],
                        !.prohibitedWords = IF f[2] THEN <<"sky">> ELSE <<>>,
                        !.transparentBgEnabled = f[3],
                        !.isolatedOnTransparentBgEnabled = f[4],
                        !.silhouetteEnabled = f[5],
                        !.singleWordKeywordsEnabled = f[6]] :
        pl \in PostPlatforms, f \in [1..6 -> Bools]}

PlainOptions == {[RunOptions EXCEPT !.platforms = <<pl>>] : pl \in PostPlatforms}

PromptOptions == {[RunOptions EXCEPT !.generationMode = "imageToPrompt"]}

PostFile(ext) == MkFile(1, CHOOSE k \in FileKinds : k.ext = ext, 1)

PostInput(file, o, body) == [kind |-> "in", file |-> file, o |-> o, body |-> body]

PostInputs ==
    {PostInput(PostFile("jpg"), o, JsonBody(r)) : o \in FlagOptions, r \in ImageObjects}
    \cup {PostInput(PostFile(e), o, JsonBody(r)) :
              e \in {"mp4", "eps"}, o \in PlainOptions, r \in VideoObjects}
    \cup {PostInput(PostFile(e), o, b) :
              e \in {"jpg", "svg", "eps", "mp4"}, o \in PromptOptions \cup PlainOptions,
              b \in {ProseBody, NoBody}}

\* No scheduler run is under way.
SchedIdle ==
    /\ imageFiles = <<>>
    /\ endpoint = "healthy"
    /\ options = RunOptions
    /\ pc = "done"
    /\ MAX_BATCH_SIZE = 10
    /\ batchIndex = 0
    /\ i = 0
    /\ allResults = <<>>
    /\ reducedFile = NoFile
    /\ outerRetry = 0
    /\ calls = <<>>
    /\ waited = 0

InitPost ==
    /\ SchedIdle
    /\ faultsLeft = 0
    /\ PipeIdle
    /\ UIIdle
    /\ postIn \in PostInputs
    /\ postOut = {}
    /\ thumb = NoThumb

\* The ok response with the body is in: the code after the request loop, with
\* the catch block of the pipeline around it.
PostApply ==
    /\ postIn.kind = "in"
    /\ postOut = {}
    /\ postOut' = {PipelineCatch(
                       AfterLoop(Response(200, "", postIn.body), postIn.o, postIn.file,
                                 Classify(postIn.file)),
                       postIn.file).result}
    /\ UNCHANGED <<schedVars, pipeVars, postIn, thumb, uiVars>>

NextPost == PostApply

SpecPost == InitPost /\ [][NextPost]_vars

(***************************************************************************)
(* The page (Index): processBatch, handleProcessImages and                 *)
(* handleRegenerateImage.  An image is its position in the images state;   *)
(* a call of processBatch keeps the batches of the render it was created   *)
(* in.  One request stands for the requests of one file, which the         *)
(* pipeline issues one after the other.                                    *)
(***************************************************************************)
batchSize == 5

\* The loops that cut the pending images into batches of batchSize.
RECURSIVE Chunks(_, _)
Chunks(s, n) ==
    IF s = <<>> THEN <<>>
    ELSE <<Slice(s, n)>> \o Chunks(SubSeq(s, n + 1, Len(s)), n)

\* images.filter(img => img.status === 'pending')
PendingImages(imgs) ==
    FilterSeq([k \in 1..Len(imgs) |-> k], LAMBDA k : imgs[k] = "pending")

\* The settings the page offers: the initial ones and a change of platform.
SettingsValues == {RunOptions, [RunOptions EXCEPT !.platforms = <<"Freepik">>]}

\* The first lines of processBatch(b) in a render whose batches are bs and whose
\* settings are st, down to the first await: the call that is then under way,
\* if any. Its options object is not built yet; `started` (ghost) holds the
\* settings in force when the first batch of the run was started.
StartedRuns(bs, b, st, started) ==
    IF b >= Len(bs) THEN <<>>
    ELSE <<[batches |-> bs, batchIndex |-> b, i |-> 0, phase |-> "credits", failed |-> {},
            render |-> st, options |-> {}, started |-> started]>>

\* TimerClosure of a timer that calls the processBatch of the latest render.
TimerClosureLatest(run) == settings

\* The render whose processBatch the timer of a finished batch calls: the one
\* the finished call belongs to.
TimerClosure(run) == run.render

\* isProcessing after those lines.
StartedFlag(bs, b) == b < Len(bs)

CurrentBatch(run) == run.batches[run.batchIndex + 1]

RemoveAt(s, k) == SubSeq(s, 1, k - 1) \o SubSeq(s, k + 1, Len(s))

\* Array.prototype.find over the positions of a list: the first of the matching
\* positions, 0 when there is none (undefined).
FirstOf(positions) ==
    IF positions = {} THEN 0
    ELSE CHOOSE k \in positions : \A j \in positions : k <= j

\* name.replace(/\.[^/.]+$/, ""): the name without its extension.
WithoutExt(name) == name[1]

\* processBatch, the matching loop: the position in batchResults of the result
\* the image at i of currentBatch is given, 0 when it is given none. The files
\* of currentBatch are those passed to analyzeImagesInBatch (a reduced file
\* keeps the name of its original).
ReconciledResult(currentBatch, batchResults, n) ==
    LET name == FileName(currentBatch[n + 1])
        positions == 1..Len(batchResults)
        byFilename == FirstOf({k \in positions : batchResults[k].filename = {name}})
        byIndex == FirstOf({k \in positions : batchResults[k].index = {n}})
        byExtensionless ==
            FirstOf({k \in positions :
                \E resName \in batchResults[k].filename :
                    WithoutExt(resName) = WithoutExt(name)})
    IN IF byFilename # 0 THEN byFilename
       ELSE IF byIndex # 0 THEN byIndex
       ELSE IF byExtensionless # 0 THEN byExtensionless
       ELSE IF n < Len(batchResults) THEN n + 1
       ELSE 0

\* The requests of the page's runs fail at most once in all.
InitUI ==
    /\ SchedIdle
    /\ faultsLeft = 1
    /\ PipeIdle
    /\ PostIdle
    /\ \E n \in 1..MaxUiBatches :
          /\ images = [k \in 1..(batchSize * (n - 1) + 1) |-> "pending"]
          /\ batches = Chunks([k \in 1..(batchSize * (n - 1) + 1) |-> k], batchSize)
    /\ isProcessing = FALSE
    /\ runs = <<>>
    /\ settings = RunOptions
    /\ clicksLeft = MaxClicks

\* handleProcessImages: the batches state is set from the pending images, and
\* processBatch(0) runs with the batches of the render the handler belongs to.
HandleProcessImages(imgs) ==
    LET pendingImages == PendingImages(images)
    IN /\ images' = imgs
       /\ IF pendingImages = <<>>
          THEN UNCHANGED <<batches, isProcessing, runs>>
          ELSE /\ batches' = Chunks(pendingImages, batchSize)
               /\ isProcessing' = StartedFlag(batches, 0)
               /\ runs' = runs \o StartedRuns(batches, 0, settings, settings)

\* A click on a process button (disabled while isProcessing, or with nothing pending).
\* The model follows two processBatch calls at a time, at most.
ProcessClick ==
    /\ clicksLeft > 0
    /\ Len(runs) <= 1
    /\ ~isProcessing
    /\ PendingImages(images) # <<>>
    /\ clicksLeft' = clicksLeft - 1
    /\ HandleProcessImages(images)
    /\ UNCHANGED <<schedVars, pipeVars, postVars, settings>>

\* handleRegenerateImage: a click on Re-generate of an image in error.
RegenerateClick ==
    /\ clicksLeft > 0
    /\ Len(runs) <= 1
    /\ \E id \in 1..Len(images) :
          /\ images[id] = "error"
          /\ HandleProcessImages([images EXCEPT ![id] = "pending"])
    /\ clicksLeft' = clicksLeft - 1
    /\ UNCHANGED <<schedVars, pipeVars, postVars, settings>>

\* processBatch after incrementCreditsUsed: the images of the batch are set to
\* processing, the options object is built from the state of the render, and
\* analyzeImagesInBatch is called with it.
BatchBegin ==
    \E k \in 1..Len(runs) :
        /\ runs[k].phase = "credits"
        /\ images' = [id \in 1..Len(images) |->
                         IF id \in Range(CurrentBatch(runs[k])) THEN "processing"
                         ELSE images[id]]
        /\ runs' = [runs EXCEPT ![k].phase = "request", ![k].options = {runs[k].render}]
        /\ UNCHANGED <<schedVars, pipeVars, postVars, batches, isProcessing, settings,
                       clicksLeft>>

\* The request for the file at i goes out.
BatchFetch ==
    \E k \in 1..Len(runs) :
        /\ runs[k].phase = "request"
        /\ runs' = [runs EXCEPT ![k].phase = "inflight"]
        /\ UNCHANGED <<schedVars, pipeVars, postVars, images, batches, isProcessing,
                       settings, clicksLeft>>

\* Its response arrives; the scheduler goes on to the next file of the batch or
\* returns its results.
BatchResponse ==
    \E k \in 1..Len(runs), ok \in BOOLEAN :
        /\ runs[k].phase = "inflight"
        /\ ~ok => faultsLeft > 0
        /\ faultsLeft' = IF ok THEN faultsLeft ELSE faultsLeft - 1
        /\ runs' = [runs EXCEPT
               ![k].failed = IF ok THEN @ ELSE @ \cup {runs[k].i},
               ![k].i = IF runs[k].i < Len(CurrentBatch(runs[k])) - 1 THEN @ + 1 ELSE @,
               ![k].phase = IF runs[k].i < Len(CurrentBatch(runs[k])) - 1
                            THEN "request" ELSE "reconcile"]
        /\ UNCHANGED <<schedVarsButFaults, pipeVars, postVars, images, batches,
                       isProcessing, settings, clicksLeft>>

\* BatchEnd of a reconciliation that writes the status of the images with a
\* result without error only.
BatchEndLeavesFailed ==
    \E k \in 1..Len(runs) :
        LET run == runs[k]
            batch == CurrentBatch(run)
        IN /\ run.phase = "reconcile"
           /\ images' = [id \in 1..Len(images) |->
                  IF \E n \in 1..Len(batch) : batch[n] = id /\ (n - 1) \in run.failed
                  THEN images[id]
                  ELSE IF id \in Range(batch) THEN "complete" ELSE images[id]]
           /\ runs' = IF run.batchIndex < Len(run.batches) - 1
                      THEN [runs EXCEPT ![k].phase = "timer"]
                      ELSE RemoveAt(runs, k)
           /\ isProcessing' = FALSE
           /\ UNCHANGED <<schedVars, pipeVars, postVars, batches, settings, clicksLeft>>

\* processBatch after analyzeImagesInBatch: every image of the batch is set to
\* complete or error, the next batch is scheduled one second later when there is
\* one, and the finally block clears isProcessing.
BatchEnd ==
    \E k \in 1..Len(runs) :
        LET run == runs[k]
            batch == CurrentBatch(run)
        IN /\ run.phase = "reconcile"
           /\ images' = [id \in 1..Len(images) |->
                  IF \E n \in 1..Len(batch) : batch[n] = id /\ (n - 1) \in run.failed
                  THEN "error"
                  ELSE IF id \in Range(batch) THEN "complete" ELSE images[id]]
           /\ runs' = IF run.batchIndex < Len(run.batches) - 1
                      THEN [runs EXCEPT ![k].phase = "timer"]
                      ELSE RemoveAt(runs, k)
           /\ isProcessing' = FALSE
           /\ UNCHANGED <<schedVars, pipeVars, postVars, batches, settings, clicksLeft>>

\* analyzeImagesInBatch rejects (its own code catches every failure of a file;
\* a rejection is a failure of the runtime under it): the catch block of
\* processBatch starts the one-by-one fallback over the same batch.
BatchThrow ==
    \E k \in 1..Len(runs) :
        /\ runs[k].phase = "inflight"
        /\ faultsLeft > 0
        /\ runs' = [runs EXCEPT ![k].phase = "fallback", ![k].i = 0, ![k].failed = {}]
        /\ UNCHANGED <<schedVars, pipeVars, postVars, images, batches, isProcessing,
                       settings, clicksLeft>>

\* The fallback loop, one image: analyzeImageWithGemini settles and the image is
\* set to complete or error; after the last image the next batch is scheduled
\* when there is one, and the finally block clears isProcessing.
FallbackStep ==
    \E k \in 1..Len(runs), ok \in BOOLEAN :
        LET run == runs[k]
            batch == CurrentBatch(run)
            last == run.i >= Len(batch) - 1
        IN /\ run.phase = "fallback"
           /\ ~ok => faultsLeft > 0
           /\ faultsLeft' = IF ok THEN faultsLeft ELSE faultsLeft - 1
           /\ images' = [images EXCEPT ![batch[run.i + 1]] =
                             IF ok THEN "complete" ELSE "error"]
           /\ runs' = IF ~last
                      THEN [runs EXCEPT ![k].i = @ + 1,
                                        ![k].failed = IF ok THEN @ ELSE @ \cup {run.i}]
                      ELSE IF run.batchIndex < Len(run.batches) - 1
                      THEN [runs EXCEPT ![k].phase = "timer",
                                        ![k].failed = IF ok THEN @ ELSE @ \cup {run.i}]
                      ELSE RemoveAt(runs, k)
           /\ isProcessing' = IF last THEN FALSE ELSE isProcessing
           /\ UNCHANGED <<schedVarsButFaults, pipeVars, postVars, batches, settings,
                          clicksLeft>>

\* The timer fires: processBatch(batchIndex + 1) of the same render.
BatchTimer ==
    \E k \in 1..Len(runs) :
        /\ runs[k].phase = "timer"
        /\ runs' = RemoveAt(runs, k)
                   \o StartedRuns(runs[k].batches, runs[k].batchIndex + 1,
                                  TimerClosure(runs[k]), runs[k].started)
        /\ isProcessing' = StartedFlag(runs[k].batches, runs[k].batchIndex + 1)
        /\ UNCHANGED <<schedVars, pipeVars, postVars, images, batches, settings,
                       clicksLeft>>

\* The user changes a setting while processing is under way: the state is set
\* and the page renders again. (One change, away from the initial settings.)
ChangeSettings ==
    /\ runs # <<>>
    /\ settings = RunOptions
    /\ \E st \in SettingsValues :
          /\ st # settings
          /\ settings' = st
    /\ UNCHANGED <<schedVars, pipeVars, postVars, images, batches, isProcessing, runs,
                   clicksLeft>>

NextUI ==
    \/ ChangeSettings
    \/ ProcessClick
    \/ RegenerateClick
    \/ BatchBegin
    \/ BatchFetch
    \/ BatchResponse
    \/ BatchEnd
    \/ BatchThrow
    \/ FallbackStep
    \/ BatchTimer

SpecUI == InitUI /\ [][NextUI]_vars

\* The steps of a processBatch call that is under way are taken sooner or later:
\* they are continuations of promises and a timer. Clicks are the user's.
ProcessingStep ==
    \/ BatchBegin
    \/ BatchFetch
    \/ BatchResponse
    \/ BatchEnd
    \/ FallbackStep
    \/ BatchTimer

SpecUIFair == SpecUI /\ WF_vars(ProcessingStep)

(***************************************************************************)
(* extractVideoThumbnail step by step: the video element, its events and   *)
(* the 10 s timer of extractThumbnailUsingVideoElement, then the fallback. *)
(***************************************************************************)
\* What the browser does with the media: it loads the metadata and completes
\* the seek, it never loads anything, it reports an error, or it loads the
\* metadata and never completes the seek.
MediaBehaviours == {"plays", "noload", "error", "stalls"}

\* What the canvas of a path does: it draws and encodes, it gives no 2d
\* context, or toBlob yields null.
CanvasBehaviours == {"draws", "nocanvas", "noblob"}

VideoFiles ==
    {MkFile(stem, k, size) : stem \in 1..2, k \in {f \in FileKinds : f.ext = "mp4"},
                             size \in FileSizes}

\* The call has set video.src and the timer: the promise of the primary path
\* and the promise of extractVideoThumbnail are pending.
ThumbInputs ==
    {[step |-> "loading", file |-> f, media |-> m, canvas |-> c, fallbackCanvas |-> fc,
      readyState |-> 0, timer |-> "set", primary |-> "pending", settled |-> "pending",
      result |-> NoFile] :
        f \in VideoFiles, m \in MediaBehaviours, c \in CanvasBehaviours,
        fc \in CanvasBehaviours}

InitThumb ==
    /\ SchedIdle
    /\ faultsLeft = 0
    /\ PipeIdle
    /\ UIIdle
    /\ postIn = [kind |-> "none"]
    /\ postOut = {}
    /\ thumb \in ThumbInputs

\* reject(..) and resolve(..) of the primary promise: only the first settles it.
SettlePrimary(t, how) == IF t.primary = "pending" THEN [t EXCEPT !.primary = how] ELSE t

\* video.onloadedmetadata: the seek is requested.
VideoLoadedMetadata ==
    /\ thumb.step = "loading"
    /\ thumb.media \in {"plays", "stalls"}
    /\ thumb' = [thumb EXCEPT !.step = "seeking", !.readyState = 1]
    /\ UNCHANGED <<schedVars, pipeVars, postIn, postOut, uiVars>>

\* video.onerror
VideoError ==
    /\ thumb.step = "loading"
    /\ thumb.media = "error"
    /\ thumb' = SettlePrimary([thumb EXCEPT !.step = "ended"], "loaderror")
    /\ UNCHANGED <<schedVars, pipeVars, postIn, postOut, uiVars>>

\* The 10 s timer fires: it rejects only when readyState is still 0.
VideoTimeout ==
    /\ thumb.step # "none"
    /\ thumb.timer = "set"
    /\ thumb' = IF thumb.readyState = 0
                THEN SettlePrimary([thumb EXCEPT !.timer = "fired"], "timeout")
                ELSE [thumb EXCEPT !.timer = "fired"]
    /\ UNCHANGED <<schedVars, pipeVars, postIn, postOut, uiVars>>

\* video.onseeked: the frame is drawn on the canvas and encoded.
VideoSeeked ==
    /\ thumb.step = "seeking"
    /\ thumb.media = "plays"
    /\ thumb' = SettlePrimary([thumb EXCEPT !.step = "ended"],
                              CASE thumb.canvas = "draws" -> "frame"
                                [] thumb.canvas = "nocanvas" -> "nocanvas"
                                [] OTHER -> "noblob")
    /\ UNCHANGED <<schedVars, pipeVars, postIn, postOut, uiVars>>

\* extractVideoThumbnail after the await of the primary path: its result, or the
\* fallback and its result.
ThumbSettle ==
    /\ thumb.step # "none"
    /\ thumb.primary # "pending"
    /\ thumb.settled = "pending"
    /\ LET r == extractVideoThumbnail(thumb.file, thumb.primary,
                    IF thumb.fallbackCanvas = "draws" THEN "placeholder"
                    ELSE thumb.fallbackCanvas)
       IN thumb' = [thumb EXCEPT !.settled = r.settled,
                                 !.result = IF r.settled = "resolve" THEN r.file ELSE NoFile]
    /\ UNCHANGED <<schedVars, pipeVars, postIn, postOut, uiVars>>

NextThumb ==
    \/ VideoLoadedMetadata
    \/ VideoError
    \/ VideoTimeout
    \/ VideoSeeked
    \/ ThumbSettle

SpecThumb == InitThumb /\ [][NextThumb]_vars

\* Every event the browser has pending is delivered, the timer fires, and the
\* continuation of a settled promise runs.
SpecThumbFair == SpecThumb /\ WF_vars(NextThumb)

(***************************************************************************)
(* Title sanitization, character by character: a string is a sequence of   *)
(* characters.                                                             *)
(***************************************************************************)
\* An ASCII letter in both cases, a digit, the underscore, two white-space
\* characters, a symbol, and a letter outside ASCII in both cases.
Chars == {"a", "A", "1", "_", " ", "\t", ",", "U+00E9", "U+00C9"}

\* \w and \s of the regular expressions.
IsWordChar(c) == c \in {"a", "A", "1", "_"}
IsSpace(c) == c \in {" ", "\t"}

\* String.prototype.trim
RECURSIVE TrimStart(_)
TrimStart(text) ==
    IF text # <<>> /\ IsSpace(Head(text)) THEN TrimStart(Tail(text)) ELSE text

RECURSIVE TrimEnd(_)
TrimEnd(text) ==
    IF text # <<>> /\ IsSpace(text[Len(text)])
    THEN TrimEnd(SubSeq(text, 1, Len(text) - 1)) ELSE text

Trim(text) == TrimEnd(TrimStart(text))

\* replace(/[^\w\s]/gi, ' ')
ReplaceSymbols(text) ==
    [k \in 1..Len(text) |->
        IF ~IsWordChar(text[k]) /\ ~IsSpace(text[k]) THEN " " ELSE text[k]]

\* replace(/\s+/g, ' ')
RECURSIVE CollapseSpaces(_)
CollapseSpaces(text) ==
    IF text = <<>> THEN <<>>
    ELSE IF IsSpace(Head(text))
    THEN <<" ">> \o CollapseSpaces(TrimStart(text))
    ELSE <<Head(text)>> \o CollapseSpaces(Tail(text))

\* removeSymbols with the white space collapsed before the symbols are replaced.
removeSymbolsCollapseFirst(text) == Trim(ReplaceSymbols(CollapseSpaces(text)))

removeSymbols(text) == Trim(CollapseSpaces(ReplaceSymbols(text)))

removeSymbolsFromTitle(title) == removeSymbols(title)

\* toLowerCase and toUpperCase
LowerChar(c) == CASE c = "A" -> "a" [] c = "U+00C9" -> "U+00E9" [] OTHER -> c
UpperChar(c) == CASE c = "a" -> "A" [] c = "U+00E9" -> "U+00C9" [] OTHER -> c
toLowerCase(text) == [k \in 1..Len(text) |-> LowerChar(text[k])]

\* split(' ') and join(' ')
RECURSIVE SplitSpaces(_)
SplitSpaces(text) ==
    LET at == FirstOf({k \in 1..Len(text) : text[k] = " "})
    IN IF at = 0 THEN <<text>>
       ELSE <<SubSeq(text, 1, at - 1)>> \o SplitSpaces(SubSeq(text, at + 1, Len(text)))

RECURSIVE JoinSpaces(_)
JoinSpaces(words) ==
    IF Len(words) = 1 THEN words[1]
    ELSE words[1] \o <<" ">> \o JoinSpaces(Tail(words))

capitalizeFirstWord(text) ==
    IF text = <<>> THEN <<>>
    ELSE LET words == SplitSpaces(toLowerCase(Trim(text)))
             first == IF words[1] = <<>> THEN <<>>
                      ELSE <<UpperChar(Head(words[1]))>> \o Tail(words[1])
         IN JoinSpaces([words EXCEPT ![1] = first])

\* The titles given to the sanitization.
Titles == UNION {[1..n -> Chars] : n \in 0..MaxTitleLen}

InitTitle ==
    /\ SchedIdle
    /\ faultsLeft = 0
    /\ PipeIdle
    /\ UIIdle
    /\ postIn \in {[kind |-> "title", title |-> t] : t \in Titles}
    /\ postOut = {}
    /\ thumb = NoThumb

\* result.title = capitalizeFirstWord(removeSymbolsFromTitle(result.title)),
\* applied to the title and then to its own result.
TitleApply ==
    /\ postIn.kind = "title"
    /\ LET before == IF postOut = {} THEN postIn.title
                     ELSE (CHOOSE out \in postOut : TRUE).title
           applied == IF postOut = {} THEN 0 ELSE (CHOOSE out \in postOut : TRUE).applied
       IN /\ applied < 2
          /\ postOut' = {[applied |-> applied + 1, before |-> before,
                          title |-> capitalizeFirstWord(removeSymbolsFromTitle(before))]}
    /\ UNCHANGED <<schedVars, pipeVars, postIn, thumb, uiVars>>

NextTitle == TitleApply

SpecTitle == InitTitle /\ [][NextTitle]_vars

(***************************************************************************)
(* analyzeImageWithGemini: the prompt.  A prompt is the sequence of its     *)
(* parts; a part has a kind (the directive or text it is) and the branch    *)
(* of the code whose wording it carries.                                    *)
(***************************************************************************)
Part(kind, wording) == [kind |-> kind, wording |-> wording]

\* prohibitedWords.split(',').map(trim).filter(nonempty) has an element.
HasProhibitedWords(o) == o.prohibitedWordsEnabled /\ Len(o.prohibitedWords) > 0

\* The prohibited-word directive, then the white-background, the
\* transparent-background and the silhouette directives, each if enabled.
Directives(o) ==
    (IF HasProhibitedWords(o) THEN <<Part("prohibited", "words")>> ELSE <<>>)
    \o (IF o.transparentBgEnabled THEN <<Part("background", "white")>> ELSE <<>>)
    \o (IF o.isolatedOnTransparentBgEnabled THEN <<Part("background", "transparent")>> ELSE <<>>)
    \o (IF o.silhouetteEnabled THEN <<Part("silhouette", "silhouette")>> ELSE <<>>)

\* The built-in template: by generation mode, platform and kind of file.
Template(o, tag) ==
    Part("template",
         CASE o.generationMode = "imageToPrompt" ->
                  (IF tag = "eps" THEN "eps prompt"
                   ELSE IF tag = "video" THEN "video prompt" ELSE "image prompt")
           [] isFreepikOnly(o) -> (IF tag = "eps" THEN "eps Freepik" ELSE "image Freepik")
           [] isShutterstock(o) -> (IF tag = "eps" THEN "eps Shutterstock" ELSE "image Shutterstock")
           [] isAdobeStock(o) -> (IF tag = "eps" THEN "eps AdobeStock" ELSE "image AdobeStock")
           [] OTHER -> (IF tag = "video" THEN "video"
                        ELSE IF tag = "eps" THEN "eps" ELSE "image"))

\* The response-format directive, of the custom branch and of the built-in one.
Format(o, tag) ==
    Part("format",
         CASE o.generationMode = "imageToPrompt" -> "prompt only"
           [] isFreepikOnly(o) -> "title prompt keywords"
           [] isShutterstock(o) -> "description keywords"
           [] isAdobeStock(o) -> "title keywords"
           [] OTHER -> (IF tag = "video" THEN "title keywords category"
                        ELSE "title description keywords"))

\* A custom prompt composed the way the built-in templates are.
CustomPromptDirectivesFirst(o, customPrompt, tag) ==
    Directives(o) \o <<Part("custom", customPrompt)>> \o <<Format(o, tag)>>

\* prompt = `${customPrompt}${formattingPrompt}`
CustomPrompt(o, customPrompt, tag) ==
    <<Part("custom", customPrompt)>> \o Directives(o) \o <<Format(o, tag)>>

\* The prompt of the built-in templates.
TemplatePrompt(o, tag) == Directives(o) \o <<Template(o, tag)>> \o <<Format(o, tag)>>

\* The prompt sent with the file; customPrompt is "" when it trims to nothing.
Prompt(o, customPrompt, tag) ==
    IF o.customPromptEnabled /\ customPrompt # ""
    THEN CustomPrompt(o, customPrompt, tag)
    ELSE TemplatePrompt(o, tag)

PromptOptionValues ==
    {[RunOptions EXCEPT !.platforms = <<pl>>,
                        !.generationMode = mode,
                        !.customPromptEnabled = f[1],
                        !.prohibitedWordsEnabled = f[2],
                        !.prohibitedWords = pw,
                        !.transparentBgEnabled = f[3],
                        !.isolatedOnTransparentBgEnabled = f[4],
                        !.silhouetteEnabled = f[5]] :
        pl \in PostPlatforms, mode \in {"metadata", "imageToPrompt"},
        f \in [1..5 -> Bools], pw \in {<<>>, <<"sky">>}}

PromptInputs ==
    {[kind |-> "prompt", o |-> o, customPrompt |-> c, tag |-> t] :
        o \in PromptOptionValues, c \in {"", "describe"},
        t \in {"image", "svg", "eps", "video"}}

InitPrompt ==
    /\ SchedIdle
    /\ faultsLeft = 0
    /\ PipeIdle
    /\ UIIdle
    /\ postIn \in PromptInputs
    /\ postOut = {}
    /\ thumb = NoThumb

\* The prompt is composed for the normalized file.
PromptCompose ==
    /\ postIn.kind = "prompt"
    /\ postOut = {}
    /\ postOut' = {Prompt(postIn.o, postIn.customPrompt, postIn.tag)}
    /\ UNCHANGED <<schedVars, pipeVars, postIn, thumb, uiVars>>

NextPrompt == PromptCompose

SpecPrompt == InitPrompt /\ [][NextPrompt]_vars

(***************************************************************************)
(* reduceImageSize: the dimensions of the canvases.  Lengths are pixels.    *)
(***************************************************************************)
targetWidth == 200

\* Math.round of the quotient num / den of two positive integers, when the
\* quotient is computed exactly.
RoundDiv(num, den) == (2 * num + den) \div (2 * den)

\* Math.round(img.height * (newWidth / img.width)): the quotient and the product
\* are rounded to doubles, so a value that is exactly half way may come out on
\* either side.
RoundedHeights(height, scaledWidth, width) ==
    IF (2 * height * scaledWidth) % (2 * width) = width
    THEN {RoundDiv(height * scaledWidth, width), RoundDiv(height * scaledWidth, width) - 1}
    ELSE {RoundDiv(height * scaledWidth, width)}

\* The dimensions of the first canvas, for the rounded height h.
Dimensions(width, height, scaledWidth, h) ==
    IF width > 200 /\ height > 200
    THEN [width |-> Max(scaledWidth, 200), height |-> Max(h, 200)]
    ELSE [width |-> Min(width, 200), height |-> Min(height, 200)]

\* let newWidth = Math.min(Math.round(img.width * 0.1), targetWidth)
ScaledWidth(width) == Min(RoundDiv(width, 10), targetWidth)

\* The dimensions of the second, smaller canvas.
SmallerDimensions(d) ==
    [width |-> RoundDiv(7 * d.width, 10), height |-> RoundDiv(7 * d.height, 10)]

PixelLengths == {50, 200, 201, 300, 1000, 2345, 5000}

ReduceInputs ==
    {[kind |-> "reduce", width |-> w, height |-> h] : w, h \in PixelLengths}

InitReduce ==
    /\ SchedIdle
    /\ faultsLeft = 0
    /\ PipeIdle
    /\ UIIdle
    /\ postIn \in ReduceInputs
    /\ postOut = {}
    /\ thumb = NoThumb

\* img.onload: the first canvas is sized and drawn; without a context the
\* promise is rejected.
ImgOnload ==
    /\ postIn.kind = "reduce"
    /\ postOut = {}
    /\ \E h \in RoundedHeights(postIn.height, ScaledWidth(postIn.width), postIn.width),
          ctx \in Bools :
          LET d == Dimensions(postIn.width, postIn.height, ScaledWidth(postIn.width), h)
          IN postOut' = {[stage |-> IF ctx THEN "newFile" ELSE "rejected",
                           first |-> d, width |-> d.width, height |-> d.height]}
    /\ UNCHANGED <<schedVars, pipeVars, postIn, thumb, uiVars>>

\* The callback of the first toBlob: no blob rejects; a file of 200 KB or less
\* is the result; a larger one goes to the second canvas.
FirstBlob ==
    /\ postIn.kind = "reduce"
    /\ \E out \in postOut :
          /\ out.stage = "newFile"
          /\ \E blob \in {"none", "small", "large"} :
                postOut' = {[out EXCEPT !.stage =
                                CASE blob = "none" -> "rejected"
                                  [] blob = "small" -> "resolved"
                                  [] OTHER -> "smaller"]}
    /\ UNCHANGED <<schedVars, pipeVars, postIn, thumb, uiVars>>

\* The second canvas: without a context, without a blob, or with a file that is
\* not smaller, the first file is the result; otherwise the second one.
SecondBlob ==
    /\ postIn.kind = "reduce"
    /\ \E out \in postOut :
          /\ out.stage = "smaller"
          /\ \E final \in Bools :
                postOut' = {IF final
                            THEN [out EXCEPT !.stage = "resolved",
                                             !.width = SmallerDimensions(out.first).width,
                                             !.height = SmallerDimensions(out.first).height]
                            ELSE [out EXCEPT !.stage = "resolved"]}
    /\ UNCHANGED <<schedVars, pipeVars, postIn, thumb, uiVars>>

NextReduce == ImgOnload \/ FirstBlob \/ SecondBlob

SpecReduce == InitReduce /\ [][NextReduce]_vars

(***************************************************************************)
(* Properties of the scheduler run.                                        *)
(***************************************************************************)
\* The files of the run that share their name with another file of the run.
HasDuplicateNames ==
    \E j, k \in 1..Len(imageFiles) : j # k /\ FileName(imageFiles[j]) = FileName(imageFiles[k])

ErrorIndexes == {k \in 1..Len(allResults) : allResults[k].error # {}}

\* C1 (as amended): when analyzeImagesInBatch returns, on either path, there is
\* exactly one result per input file, and the k-th result carries the name of
\* the k-th input file and the index k - 1.
RoundTripByPosition ==
    pc = "done" =>
        /\ Len(allResults) = Len(imageFiles)
        /\ \A k \in 1..Len(imageFiles) :
              /\ allResults[k].filename = {FileName(imageFiles[k])}
              /\ allResults[k].index = {k - 1}

\* C1, witness: a batched run of two batches over files with repeated names
\* has returned, with failed and successful files among them.
RoundTripWitness ==
    /\ pc = "done"
    /\ ~Individually(imageFiles)
    /\ NumBatches >= 2
    /\ HasDuplicateNames
    /\ ErrorIndexes # {}
    /\ ErrorIndexes # 1..Len(allResults)

\* C1 (as stated): one result per input file, and the name of every result is
\* the name of exactly one input file.
RoundTripExactlyOne ==
    pc = "done" =>
        /\ Len(allResults) = Len(imageFiles)
        /\ \A k \in 1..Len(allResults) :
              Cardinality({j \in 1..Len(imageFiles) :
                              allResults[k].filename = {FileName(imageFiles[j])}}) = 1

\* C2: a failure of one file never aborts the run.  Until the run returns the
\* scheduler is at a step it can take, with one result for each file before
\* the current one; a result that carries an error carries the name and the
\* type flags of its file; when the run returns every file has its result, every
\* file whose downscale step did not reject was given to the pipeline, and on a
\* healthy endpoint no more results carry an error than failures were injected.
FailureNeverAborts ==
    /\ pc # "done" =>
          \/ pc \in {"start", "delay", "batchDelay"} /\ ppc = "idle"
          \/ pc = "reduce" /\ ppc = "idle" /\ Len(allResults) = GlobalIndex
                           /\ GlobalIndex < Len(imageFiles)
          \/ pc = "calling" /\ ppc # "idle" /\ Len(allResults) = GlobalIndex
    /\ \A k \in ErrorIndexes :
          /\ allResults[k].filename = {FileName(imageFiles[k])}
          /\ allResults[k].isVideo = {isVideoFile(imageFiles[k])}
          /\ allResults[k].isEps = {isEpsFile(imageFiles[k])}
    /\ pc = "done" =>
          /\ Len(allResults) = Len(imageFiles)
          /\ \A k \in 1..Len(imageFiles) :
                \/ calls[k] >= 1
                \/ allResults[k].error = {"Could not get canvas context"}
          /\ endpoint = "healthy" => Cardinality(ErrorIndexes) <= MaxFaults - faultsLeft

\* C2, witness: the downscale step rejected for the first file of a run of two
\* batches, and the last file of the last batch has a normal result.
FailureNeverAbortsWitness ==
    /\ pc = "done"
    /\ NumBatches >= 2
    /\ allResults[1].error = {"Could not get canvas context"}
    /\ allResults[Len(allResults)].error = {}
    /\ allResults[Len(allResults)].title # <<>>

\* C3: against an endpoint that answers every request with 429, one call of the
\* pipeline issues exactly 6 requests and then ends with an error for the file;
\* there is never a 7th request.
Always429SixRequests ==
    endpoint = "always429" =>
        /\ Len(requestLog) <= 6
        /\ retryCount <= 6
        /\ (ppc = "return" /\ requestLog # <<>>) =>
              /\ Len(requestLog) = 6
              /\ outcome.kind = "return"
              /\ outcome.result.error = {"Resource has been exhausted (e.g. check quota)."}

\* C3, witness: the 6th request was answered and the call has ended.
Always429Witness ==
    /\ endpoint = "always429"
    /\ ppc = "return"
    /\ Len(requestLog) = 6
    /\ requestLog[6].response.status = 429

\* C4 (as stated): the wait before the first retry is 2000 ms and the waits
\* before the following retries are 4000, 8000, 16000 and 32000 ms.
BackoffStartsAtTwoSeconds ==
    \A k \in 2..Len(requestLog) : requestLog[k].waited = Min(2000 * Pow2(k - 2), 60000)

\* C5: a failure that is not retryable is never retried.  A request answered
\* with an HTTP error other than 429/503, by a transport error that does not
\* tell of rate limiting, or by a text without a JSON object is the last
\* request for its file, and the result of the file carries the error.
NonRetryableNotRetried ==
    \A k \in 1..Len(requestLog) :
        LET r == requestLog[k].response
            fatal == \/ r.status \notin {-1, 0, 200, 429, 503}
                     \/ r.status = 0 /\ r.message # "429 Too Many Requests"
                     \/ r.status = 200 /\ ~r.parses
        IN fatal => /\ k = Len(requestLog)
                    /\ ppc = "return"
                    /\ outcome.kind = "return"
                    /\ outcome.result.error # {}
                    /\ \A j \in 1..Len(imageFiles) : calls[j] <= 1

\* C5, witness: a request was retried after a 429 and its retry was answered
\* with 400; the call has ended.
NonRetryableWitness ==
    /\ ppc = "return"
    /\ Len(requestLog) = 2
    /\ requestLog[1].response.status = 429
    /\ requestLog[2].response.status = 400

\* C6 (as stated): when the pipeline call for a file fails because of rate
\* limiting, the scheduler calls the pipeline again for that file: a file whose
\* result carries the rate limit error was given to the pipeline more than once.
NestedRetryLayers ==
    \A k \in 1..Len(allResults) :
        allResults[k].error = {"Resource has been exhausted (e.g. check quota)."}
            => calls[k] >= 2

\* C8: no request issued for a file classified as EPS has an inline_data part;
\* its payload is a text part.
EpsRequestIsTextOnly ==
    \A k \in 1..Len(requestLog) :
        (isEpsFile(requestLog[k].file) /\ ~isSvgFile(requestLog[k].file)) =>
            /\ requestLog[k].parts.part = "text"
            /\ requestLog[k].parts.mime_type = "none"

\* C8, witness: a request for an EPS file was sent and answered.
EpsRequestWitness ==
    \E k \in 1..Len(requestLog) :
        /\ isEpsFile(requestLog[k].file)
        /\ requestLog[k].response.status = 200
\* C13 (as stated): the downscale step never rejects, so no file of a scheduler
\* run gets an error result because of it.
DownscaleNeverRejects ==
    \A k \in 1..Len(allResults) :
        /\ allResults[k].error # {"Could not get canvas context"}
        /\ (allResults[k].error # {} => calls[k] >= 1)

\* C14 (as stated): thumbnail extraction always produces an image: whatever
\* fails on the primary path, no video file gets the thumbnail error as result.
ThumbnailAlwaysProduced ==
    (ppc = "return" /\ originalIs = "video") =>
        outcome.result.error # {"Failed to extract thumbnail from video"}

\* C15 (as stated): when the page matches the results of a dispatched batch to
\* its files, each file is given the result produced for that very file, and no
\* result is given to two files, also when names repeat in the batch.
ReconciliationExact ==
    (pc = "done" /\ Len(imageFiles) <= batchSize) =>
        /\ \A n \in 0..(Len(imageFiles) - 1) :
              ReconciledResult(imageFiles, allResults, n) = n + 1
        /\ \A m, n \in 0..(Len(imageFiles) - 1) :
              (ReconciledResult(imageFiles, allResults, m)
                  = ReconciledResult(imageFiles, allResults, n)) => m = n

\* C16: once the scheduler has read its input, the path and the batch size are
\* those the input list determines: one file at a time, with no batch boundary,
\* when the list has more than 50 MB or more than 50 files; otherwise batches
\* of 10, of 8 above 10 MB, of 5 above 20 MB, and of at most 3 when more than
\* 5 files exceed 2 MB.
BatchingDecision ==
    pc # "start" =>
        LET totalSizeMB == TotalSize(imageFiles)
            largeFiles == Cardinality({k \in 1..Len(imageFiles) : imageFiles[k].size > 2})
            cap == IF largeFiles > 5 THEN 3 ELSE 10
            bySize == CASE totalSizeMB > 20 -> 5
                        [] totalSizeMB > 10 /\ totalSizeMB <= 20 -> 8
                        [] OTHER -> 10
        IN IF totalSizeMB > 50 \/ Len(imageFiles) > 50
           THEN /\ batchIndex = 0
                /\ pc # "batchDelay"
                /\ Len(allResults) \in {i, i + 1}
           ELSE /\ MAX_BATCH_SIZE = Min(bySize, cap)
                /\ i < MAX_BATCH_SIZE
                /\ Len(allResults) \in {batchIndex * MAX_BATCH_SIZE + i,
                                        batchIndex * MAX_BATCH_SIZE + i + 1}

\* Six files of 3 MB: batches of 3, and the first batch has been processed.
BatchingDecisionWitness ==
    /\ pc = "batchDelay"
    /\ MAX_BATCH_SIZE = 3
    /\ TotalSize(imageFiles) <= 20
    /\ Len(allResults) = 3

\* More than 50 small files are processed one at a time.
BatchingByCountWitness ==
    /\ pc = "done"
    /\ Len(imageFiles) > 50
    /\ TotalSize(imageFiles) <= 50
    /\ Len(allResults) = Len(imageFiles)

\* The results the pipeline has returned and the scheduler has collected.
ReturnedResults ==
    Range(allResults) \cup (IF ppc = "return" THEN {outcome.result} ELSE {})

HasMetadata(res) ==
    \/ res.title # <<>>
    \/ res.description # <<>>
    \/ res.keywords # <<>>
    \/ res.prompt # {}
    \/ res.category # {}
    \/ res.categories # {}

\* C17: in every result the pipeline returns or the scheduler collects, error
\* and metadata exclude each other: a result with an error has an empty title,
\* description and keyword list and no prompt, category or categories, and a
\* result with any of them has no error.
ErrorExcludesMetadata ==
    \A res \in ReturnedResults :
        /\ res.error # {} => ~HasMetadata(res)
        /\ HasMetadata(res) => res.error = {}

\* A run has collected a failed result from the pipeline and a successful one.
ErrorExcludesMetadataWitness ==
    /\ pc = "done"
    /\ \E j, k \in 1..Len(allResults) :
          /\ allResults[j].error # {} /\ calls[j] >= 1
          /\ allResults[k].error = {} /\ HasMetadata(allResults[k])

\* C20: the result list follows input order while it grows and when it is
\* returned: the k-th result carries index k (from 0) and the name of the k-th
\* input file, whichever files failed, on the one-at-a-time path and on the
\* batched path.
ResultsFollowInputOrder ==
    /\ Len(allResults) <= Len(imageFiles)
    /\ \A k \in 1..Len(allResults) :
          /\ allResults[k].index = {k - 1}
          /\ allResults[k].filename = {FileName(imageFiles[k])}
    /\ pc = "done" => Len(allResults) = Len(imageFiles)

\* A run of several batches has returned, with a failed file before a successful
\* one and a result in a later batch.
ResultsFollowInputOrderWitness ==
    /\ pc = "done"
    /\ ~Individually(imageFiles)
    /\ batchIndex >= 1
    /\ \E j, k \in 1..Len(allResults) :
          j < k /\ allResults[j].error # {} /\ allResults[k].error = {}

\* The same on the one-at-a-time path.
ResultsOneAtATimeWitness ==
    /\ pc = "done"
    /\ Individually(imageFiles)
    /\ \E j, k \in 1..Len(allResults) :
          j < k /\ allResults[j].error # {} /\ allResults[k].error = {}

\* The positions (from 0) before the current file for which the pipeline was called.
CalledBefore == {k \in 0..(GlobalIndex - 1) : calls[k + 1] >= 1}

PreviousCall == CHOOSE k \in CalledBefore : \A j \in CalledBefore : j <= k

\* C21: when the pipeline is called for a file and was called for an earlier
\* file of the run, the scheduler has waited in between: at least 1000 ms + 50 ms
\* for every file processed so far when both files are in the same batch, at
\* least 3000 ms + 1000 ms x batchIndex when a batch ended in between (on the
\* one-at-a-time path: 1000 ms + 50 ms x the earlier file's position), also
\* when the earlier call returned an error result.
DelayBetweenCalls ==
    (pc = "calling" /\ outerRetry = 0 /\ CalledBefore # {}) =>
        IF Individually(imageFiles)
        THEN waited >= 1000 + 50 * PreviousCall
        ELSE IF PreviousCall \div MAX_BATCH_SIZE = batchIndex
        THEN waited >= 1000 + 50 * (PreviousCall + 1)
        ELSE waited >= 3000 + 1000 * (PreviousCall \div MAX_BATCH_SIZE)

\* The pipeline is called for a file of a batch whose previous file got an error
\* result from the pipeline.
DelayBetweenCallsWitness ==
    /\ pc = "calling"
    /\ ~Individually(imageFiles)
    /\ i >= 1
    /\ CalledBefore # {}
    /\ PreviousCall = GlobalIndex - 1
    /\ allResults[GlobalIndex].error # {}

\* The same across a batch boundary.
DelayBetweenBatchesWitness ==
    /\ pc = "calling"
    /\ batchIndex >= 1
    /\ i = 0
    /\ CalledBefore # {}
    /\ allResults[GlobalIndex].error # {}

\* The answered requests of the current pipeline call that failed with 429 or
\* 503, or by a thrown transport error.
FailedRequests ==
    {k \in 1..Len(requestLog) : requestLog[k].response.status \in {0, 429, 503}}

\* C29: one call of the pipeline issues at most 6 requests, whatever mix of
\* 429 and 503 responses and thrown rate-limit errors it meets; every such
\* failure advances the one retry counter; and each request after the first
\* follows one backoff wait, the one of the retry it is (no wait before the
\* first request).
RequestsBoundedByOneCounter ==
    /\ Len(requestLog) <= MAX_RETRIES + 1
    /\ ppc \in {"fetch", "inflight", "backoff", "return"} =>
           retryCount = Cardinality(FailedRequests)
    /\ ppc = "backoff" =>
           /\ retryCount = Len(requestLog)
           /\ delay = BackoffDelay(retryCount)
    /\ \A k \in 1..Len(requestLog) :
           IF k = 1 THEN requestLog[k].waited = 0
           ELSE /\ requestLog[k].waited = BackoffDelay(k - 1)
                /\ LET r == requestLog[k - 1].response
                   IN \/ r.status \in {429, 503}
                      \/ r.status = 0 /\ IsRateLimitTransport(r.message)

\* C29, witness: the sixth request is out after a 429, a 503 and a thrown rate
\* limit error among the first five.
RequestsBoundedWitness ==
    /\ Len(requestLog) = 6
    /\ \E a, b, c \in 1..5 :
          /\ requestLog[a].response.status = 429
          /\ requestLog[b].response.status = 503
          /\ requestLog[c].response.status = 0

(***************************************************************************)
(* Properties of the post-processing.                                      *)
(***************************************************************************)
\* C9 (as amended): every successful result of the metadata mode for a file
\* classified as video carries a category, a number from 1 to 21, whether the
\* model's own number was taken or the keyword scoring computed it.
VideoCategoryInRange ==
    \A out \in postOut :
        (out.isVideo = {TRUE} /\ out.error = {} /\ postIn.o.generationMode = "metadata") =>
            /\ out.category # {}
            /\ \A c \in out.category : c \in 1..21

\* C9, witness: the model claimed category 22 for a video and the result
\* carries the category the keyword scoring computed.
VideoCategoryWitness ==
    \E out \in postOut :
        /\ out.isVideo = {TRUE}
        /\ out.error = {}
        /\ postIn.body.r.category = {[num |-> TRUE, val |-> 22]}
        /\ postIn.body.r.title # <<>>
        /\ out.category # {}

\* C9 (as stated): every result for a video file that is no error result
\* carries a category from 1 to 21, in every generation mode.
VideoCategoryEveryMode ==
    \A out \in postOut :
        (out.isVideo = {TRUE} /\ out.error = {}) =>
            /\ out.category # {}
            /\ \A c \in out.category : c \in 1..21

\* The distinct keyword candidates derivable from the title, the description
\* and the keywords of the parsed response.
Candidates(r) ==
    Range(Keywords(r))
    \cup Range(getRelevantFreepikKeywords(
                   r.title \o r.description \o JoinKeywords(Keywords(r))))

\* C10 (as stated): every successful metadata result has at least minKeywords
\* and at most maxKeywords keywords whenever at least minKeywords distinct
\* candidates are derivable, for every platform and every combination of flags.
KeywordBounds ==
    \A out \in postOut :
        (/\ postIn.o.generationMode = "metadata"
         /\ out.error = {}
         /\ Cardinality(Candidates(postIn.body.r)) >= postIn.o.minKeywords) =>
            /\ postIn.o.minKeywords <= Len(out.keywords)
            /\ Len(out.keywords) <= postIn.o.maxKeywords
\* C11 (as stated): the keyword list of every successful result holds no entry
\* twice, also when the model returned an entry twice and no stage rewrote the list.
NoDuplicateKeywords ==
    \A out \in postOut :
        (postIn.o.generationMode = "metadata" /\ out.error = {}) =>
            Cardinality(Range(out.keywords)) = Len(out.keywords)

\* C12 (as stated): with the prohibited-word filter enabled and a word list that
\* is not empty, no keyword of a successful result contains a prohibited word,
\* on every platform and whatever stage added the keyword.
NoProhibitedKeyword ==
    \A out \in postOut :
        (/\ postIn.o.generationMode = "metadata"
         /\ out.error = {}
         /\ postIn.o.prohibitedWordsEnabled
         /\ Len(postIn.o.prohibitedWords) > 0) =>
            \A n \in 1..Len(out.keywords), w \in 1..Len(postIn.o.prohibitedWords) :
                ~PhraseIn(out.keywords[n], <<postIn.o.prohibitedWords[w]>>)

\* The title or the description of the model's answer has the word.
AnswerMentions(r, words) ==
    \/ \E k \in 1..Len(r.title) : r.title[k].w \in words
    \/ \E k \in 1..Len(r.description) : r.description[k].w \in words

\* C23 (as stated): a video whose answer omits the category and whose title or
\* description contains "background" or "abstract" gets category 8, whatever the
\* other categories score.
GraphicBonusWins ==
    \A out \in postOut :
        (/\ postIn.kind = "in"
         /\ postIn.o.generationMode = "metadata"
         /\ out.error = {}
         /\ out.isVideo = {TRUE}
         /\ postIn.body.r.category = {}
         /\ AnswerMentions(postIn.body.r, {"background", "abstract"})) =>
            out.category = {8}

\* Some keyword of the result contains the phrase.
SomeKeywordHas(out, phrase) ==
    \E n \in 1..Len(out.keywords) : PhraseIn(out.keywords[n], phrase)

\* C24 (as stated): with a content modifier enabled and a keyword list in the
\* model's answer, the successful result has a keyword containing the modifier's
\* phrase, whatever the later stages do.
ModifierKeywordKept ==
    \A out \in postOut :
        (/\ postIn.kind = "in"
         /\ postIn.o.generationMode = "metadata"
         /\ out.error = {}
         /\ postIn.body.r.keywords # {}) =>
            /\ postIn.o.transparentBgEnabled =>
                  SomeKeywordHas(out, <<"white", "background">>)
            /\ postIn.o.isolatedOnTransparentBgEnabled =>
                  SomeKeywordHas(out, <<"transparent", "background">>)
            /\ postIn.o.silhouetteEnabled => SomeKeywordHas(out, <<"silhouette">>)

\* The keyword list as it enters the single-word stage, and as it leaves it.
BeforeExpansion == Keywords(ApplyModifiers(SanitizeTitle(postIn.body.r), postIn.o))
AfterExpansion ==
    Keywords(SingleWordKeywords(ApplyModifiers(SanitizeTitle(postIn.body.r), postIn.o),
                                postIn.o))

\* The place of a token's first occurrence among the tokens of the list.
FirstOccurrence(tokens, t) ==
    CHOOSE k \in 1..Len(tokens) : tokens[k] = t /\ \A j \in 1..(k - 1) : tokens[j] # t

\* The single-word case: metadata mode, the option on, one keyword or more in the
\* model's answer.
SingleWordCase ==
    /\ postIn.kind = "in"
    /\ postIn.o.generationMode = "metadata"
    /\ postIn.o.singleWordKeywordsEnabled
    /\ postIn.body.parses
    /\ postIn.body.r.keywords # {}
    /\ Len(Keywords(postIn.body.r)) >= 1

\* C25: with single-word keywords enabled and at least one keyword from the model,
\* every keyword of the successful result is one token, and the expansion step
\* yields the tokens of the list in order of first occurrence, without
\* repetition, at most maxKeywords of them.
SingleWordsOnly ==
    \A out \in postOut :
        (SingleWordCase /\ out.error = {}) =>
            /\ \A n \in 1..Len(out.keywords) : Len(out.keywords[n]) = 1
            /\ LET tokens == Flatten(BeforeExpansion)
                   distinct == {tokens[k] : k \in 1..Len(tokens)}
                   after == AfterExpansion
               IN /\ Len(after) = Min(Cardinality(distinct), postIn.o.maxKeywords)
                  /\ \A n \in 1..Len(after) :
                        /\ Len(after[n]) = 1
                        /\ after[n][1] \in distinct
                  /\ \A m, n \in 1..Len(after) :
                        m < n => FirstOccurrence(tokens, after[m][1])
                                     < FirstOccurrence(tokens, after[n][1])
                  /\ \A n \in 1..Len(after) : \A t \in distinct :
                        FirstOccurrence(tokens, t) < FirstOccurrence(tokens, after[n][1])
                            => \E m \in 1..(n - 1) : after[m][1] = t

\* A result of the single-word case whose list entered the expansion with a
\* phrase of two words or more.
SingleWordsOnlyWitness ==
    \E out \in postOut :
        /\ SingleWordCase
        /\ out.error = {}
        /\ \E n \in 1..Len(BeforeExpansion) : Len(BeforeExpansion[n]) >= 2
        /\ Len(out.keywords) >= 2

(***************************************************************************)
(* Properties of the page.                                                 *)
(***************************************************************************)
InFlight == {k \in 1..Len(runs) : runs[k].phase = "inflight"}

\* C7 (as stated): the model-call phase is strictly sequential: at no time are
\* two model requests in flight, however processing was started or continued
\* (process-all, the automatic advance to the next batch, re-generate).
OneRequestInFlight == Cardinality(InFlight) <= 1


\* C19: the options of a run are those in force when it was started: every
\* call of analyzeImagesInBatch of a run, also for a batch started by the
\* automatic advance after the settings were changed, is given the settings of
\* the moment the run was started.
OptionsOfTheRunStart ==
    \A k \in 1..Len(runs) :
        /\ runs[k].options \subseteq {runs[k].started}
        /\ runs[k].phase \in {"request", "inflight", "reconcile", "timer"} =>
              runs[k].options = {runs[k].started}

\* The settings were changed during a run, and a later batch of the run has its
\* request in flight.
OptionsWitness ==
    \E k \in 1..Len(runs) :
        /\ runs[k].batchIndex >= 1
        /\ runs[k].phase = "inflight"
        /\ runs[k].started # settings

\* C19, the pipeline's part: no step of the scheduler or the pipeline writes
\* the options it was given.
OptionsNeverWritten == [][options' = options]_vars

\* The positions an image of the page can have.
ImageIds == 1..(batchSize * (MaxUiBatches - 1) + 1)

\* The status of the image at a position, "none" when the page has no such image.
StatusOf(id) == IF id <= Len(images) THEN images[id] ELSE "none"

\* C28 (as stated): an image in error that is put back to pending (which only
\* Re-generate does) ends in complete or error again, with no further click
\* needed.
RegeneratedImageEnds ==
    \A id \in ImageIds :
        [](StatusOf(id) = "error" =>
              [](StatusOf(id) = "pending" => <>(StatusOf(id) \in {"complete", "error"})))

\* The image is in the batch of a processBatch call that has set it to
\* processing and has not written its result yet.
Owned(id) ==
    \E k \in 1..Len(runs) :
        \E n \in 1..Len(CurrentBatch(runs[k])) :
            /\ CurrentBatch(runs[k])[n] = id
            /\ \/ runs[k].phase \in {"request", "inflight", "reconcile"}
               \/ runs[k].phase = "fallback" /\ n - 1 >= runs[k].i

\* No image is in processing without a call that will write its result.
ProcessingIsOwned ==
    \A id \in 1..Len(images) : images[id] = "processing" => Owned(id)

\* A step that makes an image complete is the reconciliation of a call whose
\* result for it has no error, or a fallback step whose result has no error.
CompleteStep ==
    \A id \in 1..Len(images) :
        (images'[id] = "complete" /\ images[id] # "complete") =>
            \E k \in 1..Len(runs) :
                \E n \in 1..Len(CurrentBatch(runs[k])) :
                    /\ CurrentBatch(runs[k])[n] = id
                    /\ \/ runs[k].phase = "reconcile" /\ (n - 1) \notin runs[k].failed
                       \/ /\ runs[k].phase = "fallback"
                          /\ n - 1 = runs[k].i
                          /\ faultsLeft' = faultsLeft

\* Some image is in processing. (An image leaves processing for complete or
\* error only.)
AnyProcessing == \E id \in 1..Len(images) : images[id] = "processing"

SanitizationIdempotent ==
    \A out \in postOut :
        (postIn.kind = "title" /\ out.applied = 2) => out.title = out.before

\* A title that the first application changed (symbols, white space and case)
\* has been sanitized a second time.
SanitizationWitness ==
    /\ postIn.kind = "title"
    /\ \E out \in postOut :
          /\ out.applied = 2
          /\ out.before # postIn.title
          /\ Len(out.before) = 3
          /\ Len(postIn.title) >= 4
          /\ \E k \in 1..Len(postIn.title) : postIn.title[k] = ","
          /\ \E k \in 1..Len(postIn.title) : postIn.title[k] = "A"


(***************************************************************************)
(* Properties of the thumbnail extraction.                                 *)
(***************************************************************************)
\* C22 (as stated): extractVideoThumbnail eventually settles, resolved or
\* rejected, for every video and whatever the browser does with it.
ThumbnailSettles == <>(thumb.settled # "pending")

(***************************************************************************)
(* Properties of the prompt.                                               *)
(***************************************************************************)
\* The place of a kind of part in the order (a) prohibited words, (b)
\* background and silhouette directives, (c) custom text or template, (d)
\* response format.
Place(part) ==
    CASE part.kind = "prohibited" -> 1
      [] part.kind \in {"background", "silhouette"} -> 2
      [] part.kind \in {"custom", "template"} -> 3
      [] part.kind = "format" -> 4

InOrder(prompt, place(_)) ==
    \A m, n \in 1..Len(prompt) : m < n => place(prompt[m]) <= place(prompt[n])

\* The order of a custom prompt: the custom text comes first.
PlaceCustom(part) == IF part.kind = "custom" THEN 0 ELSE Place(part)

UsesCustomPrompt == postIn.o.customPromptEnabled /\ postIn.customPrompt # ""

\* C26 (as stated): the prompt is the prohibited-word directive, the background
\* and silhouette directives, the custom text or the template, the format
\* directive, in this order, with a template and with a custom prompt alike.
PromptOrderAsStated ==
    \A prompt \in postOut :
        postIn.kind = "prompt" =>
            /\ InOrder(prompt, Place)
            /\ \E n \in 1..Len(prompt) : Place(prompt[n]) = 3
            /\ prompt[Len(prompt)].kind = "format"

\* C26 (amended): with a built-in template the order is prohibited words,
\* background and silhouette directives, template, format; with a custom prompt
\* the custom text comes first and the same directives follow it in the same
\* order, the format directive last.
PromptOrder ==
    \A prompt \in postOut :
        postIn.kind = "prompt" =>
            /\ prompt[Len(prompt)].kind = "format"
            /\ HasProhibitedWords(postIn.o) <=> \E n \in 1..Len(prompt) : prompt[n].kind = "prohibited"
            /\ IF UsesCustomPrompt
               THEN /\ prompt[1] = Part("custom", postIn.customPrompt)
                    /\ InOrder(prompt, PlaceCustom)
                    /\ \A n \in 1..Len(prompt) : prompt[n].kind # "template"
               ELSE /\ InOrder(prompt, Place)
                    /\ \E n \in 1..Len(prompt) : prompt[n].kind = "template"
                    /\ \A n \in 1..Len(prompt) : prompt[n].kind # "custom"

\* A custom prompt with a prohibited-word and a silhouette directive.
PromptOrderWitness ==
    \E prompt \in postOut :
        /\ postIn.kind = "prompt"
        /\ UsesCustomPrompt
        /\ HasProhibitedWords(postIn.o)
        /\ postIn.o.silhouetteEnabled
        /\ Len(prompt) >= 4

(***************************************************************************)
(* Properties of the downscaler's dimensions.                              *)
(***************************************************************************)
\* C27 (as stated): the width and the height of the downscaled image do not
\* exceed the maximum of 200 px, and an image of 200x200 or more is not reduced
\* below 200x200.
DimensionsWithinBounds ==
    \A out \in postOut :
        (postIn.kind = "reduce" /\ out.stage = "resolved") =>
            /\ out.width <= targetWidth
            /\ out.height <= targetWidth
            /\ (postIn.width >= 200 /\ postIn.height >= 200) =>
                   (out.width >= 200 /\ out.height >= 200)

====
